---- MODULE Spec2Model ----
(***************************************************************************)
(* Model of the Collector of koishi-plugin-chat-analyse                    *)
(* (src/src/collector.ts): identity resolution with request coalescing,    *)
(* folding of chat events into in-memory buffers, and the drain of those   *)
(* buffers into storage.                                                   *)
(*                                                                         *)
(* JavaScript runs one handler at a time and a handler keeps the processor *)
(* until it reaches an `await`.  Each action below is therefore one        *)
(* synchronous segment of the code: from the start of a handler, or from   *)
(* the settlement of the promise it awaits, up to the next `await`.        *)
(* A storage or host call takes effect in the step in which it settles.    *)
(***************************************************************************)
EXTENDS Integers, Sequences, FiniteSets, TLC

(***************************************************************************)
(* Bounds of the model.                                                    *)
(***************************************************************************)
MaxEvents == 2        \* message events delivered to onMessage
MaxTimerFlush == 1    \* firings of the setInterval timer
MaxFailures == 1      \* storage calls that throw

(***************************************************************************)
(* Program constants.  BUFFER_THRESHOLD is 100 in the source; the model    *)
(* scales it down so that MaxEvents events can reach it.  HourLen is the   *)
(* length of one hour in ticks of the model's clock.                       *)
(***************************************************************************)
BUFFER_THRESHOLD == 2
HourLen == 2

null == [uid |-> 0]

(***************************************************************************)
(* Input domain: the sessions the host may deliver.                        *)
(***************************************************************************)
GuildNames == {"guild"}

Text(c) == [type |-> "text", attrs |-> [content |-> c, id |-> "", summary |-> ""]]
At(u) == [type |-> "at", attrs |-> [content |-> "", id |-> u, summary |-> ""]]

Img(summary) ==
  [type |-> "img", attrs |-> [content |-> "", id |-> "", summary |-> summary]]
Face == [type |-> "face", attrs |-> [content |-> "", id |-> "", summary |-> ""]]

Other(u) == IF u = "u1" THEN "u2" ELSE "u1"

\* a command invocation: argv.command is set
PingSession(c, u, t) ==
  [channelId |-> c, userId |-> u, content |-> "ping", username |-> "nick",
   timestamp |-> t, command |-> "ping", elements |-> <<Text("ping")>>]

\* a plain message that mentions another user twice
MentionSession(c, u, t) ==
  [channelId |-> c, userId |-> u, content |-> "hi", username |-> "nick",
   timestamp |-> t, command |-> "",
   elements |-> <<At(Other(u)), Text("hi"), At(Other(u))>>]

\* an event with whitespace-only content
BlankSession ==
  [channelId |-> "c1", userId |-> "u1", content |-> " ", username |-> "nick",
   timestamp |-> 1, command |-> "", elements |-> <<Text(" ")>>]

\* a message with a text, a picture, a mention and an animated sticker
MixedSession ==
  [channelId |-> "c1", userId |-> "u1", content |-> "a", username |-> "nick",
   timestamp |-> 1, command |-> "",
   elements |-> <<Text("a"), Img(""), At("u2"), Img("[sticker]")>>]

\* a message with an element of a kind sanitizeContent has no rule for
FaceSession ==
  [channelId |-> "c1", userId |-> "u1", content |-> "b", username |-> "nick",
   timestamp |-> 2, command |-> "", elements |-> <<Face, Text("b")>>]

\* a message of text elements only, with the characters & and <
MarkupSession ==
  [channelId |-> "c1", userId |-> "u1", content |-> "<&", username |-> "nick",
   timestamp |-> 3, command |-> "", elements |-> <<Text("<"), Text("&")>>]

SanitizeSessions == {MixedSession, FaceSession, BlankSession}

TextSessions == {MarkupSession, MixedSession, BlankSession}

\* one sender: a command, a message with mentions, a malformed event
DrainSessions ==
  {PingSession("c1", "u1", 1), MentionSession("c1", "u1", 2), BlankSession}

\* two senders of the same channel, and a malformed event
IdentitySessions ==
  {PingSession("c1", "u1", 1), PingSession("c1", "u2", 1), BlankSession}

(***************************************************************************)
(* Pure helpers.                                                           *)
(***************************************************************************)
\* f with key k (added or replaced) mapped to v
Put(f, k, v) == [x \in (DOMAIN f) \cup {k} |-> IF x = k THEN v ELSE f[x]]

\* f without key k
Del(f, k) == [x \in (DOMAIN f) \ {k} |-> f[x]]

EmptyMap == [x \in {} |-> 0]

\* content?.trim(): strips the blanks of the strings the model delivers
Trim(s) == IF s \in {"", " ", "  "} THEN "" ELSE s

\* `${channelId}:${userId}`
CacheKey(channelId, userId) == channelId \o ":" \o userId

\* the guard of line 67 without .trim()
IsDroppedNoTrim(s) == s.channelId = "" \/ s.userId = "" \/ s.content = ""

\* the guard of onMessage: !channelId || !userId || !content?.trim()
IsDropped(s) == s.channelId = "" \/ s.userId = "" \/ Trim(s.content) = ""

\* new Date(y, m, d) without the hours: the start of the day that contains t
HourStartOfDay(t) == (t \div (24 * HourLen)) * (24 * HourLen)

\* new Date(y, m, d, h): the top of the hour that contains t
HourStart(t) == (t \div HourLen) * HourLen

\* Date.toISOString() of a time of the model's clock
ISO(t) == ToString(t)

\* Element.toString() of a text element, called by .join(''): the characters
\* &, < and > are written as entities.  Exact for the contents used here: a
\* single such character, or a string without any.
Escape(content) ==
  CASE content = "&" -> "&amp;"
    [] content = "<" -> "&lt;"
    [] content = ">" -> "&gt;"
    [] OTHER -> content

\* h.transform(elements, rules).join(''): one token per element.  The string a
\* rule returns becomes a text element; an element without a rule is kept and
\* written as markup.
Token(e) ==
  CASE e.type = "text" -> Escape(e.attrs.content)
    [] e.type = "img" -> IF e.attrs.summary = "[sticker]" THEN "[gif]" ELSE "[img]"
    [] e.type = "at" -> "[at:" \o e.attrs.id \o "]"
    [] OTHER -> "<" \o e.type \o "/>"

RECURSIVE sanitizeContent(_)
sanitizeContent(elements) ==
  IF elements = <<>> THEN ""
  ELSE Token(Head(elements)) \o sanitizeContent(Tail(elements))

\* elements.filter(pred)
RECURSIVE FilterType(_, _, _)
FilterType(elements, type, keep) ==
  IF elements = <<>> THEN <<>>
  ELSE LET rest == FilterType(Tail(elements), type, keep)
       IN IF (Head(elements).type = type) = keep
          THEN <<Head(elements)>> \o rest ELSE rest

\* elements.map(e => e.type) without new Set(...)
EveryType(elements, seen) ==
  [i \in DOMAIN elements |-> elements[i].type]

\* new Set(elements.map(e => e.type)), in insertion order
RECURSIVE DistinctTypes(_, _)
DistinctTypes(elements, seen) ==
  IF elements = <<>> THEN <<>>
  ELSE IF Head(elements).type \in seen
       THEN DistinctTypes(Tail(elements), seen)
       ELSE <<Head(elements).type>>
              \o DistinctTypes(Tail(elements), seen \cup {Head(elements).type})

\* the identifier of a freshly allocated accumulator object
NewOid(heap) ==
  CHOOSE n \in 1..(Cardinality(DOMAIN heap) + 1) :
    n \notin DOMAIN heap /\ \A m \in 1..(n - 1) : m \in DOMAIN heap

(***************************************************************************)
(* Folding one event into the buffers (onMessage, lines 108-152).          *)
(* B is the record of the live buffers and of the heap of accumulator      *)
(* objects: a counter buffer maps its string key to the object it holds,   *)
(* so that a snapshot array and a live Map can refer to the same object.   *)
(* hist counts the folds per persisted key; it is not read by the code.    *)
(***************************************************************************)
Bump(f, k) == Put(f, k, IF k \in DOMAIN f THEN f[k] + 1 ELSE 1)

\* lines 113-119: the command accumulator
FoldCmd(B, s, uid) ==
  IF s.command = "" THEN B
  ELSE LET key == ToString(uid) \o ":" \o s.command
           has == key \in DOMAIN B.cmd
           oid == IF has THEN B.cmd[key] ELSE NewOid(B.heap)
           entry == IF has THEN B.heap[oid]
                    ELSE [uid |-> uid, command |-> s.command, count |-> 0,
                          timestamp |-> s.timestamp]
       IN [B EXCEPT
             !.heap = Put(@, oid, [entry EXCEPT !.count = @ + 1,
                                                !.timestamp = s.timestamp]),
             !.cmd = Put(@, key, oid),
             !.hist.cmd = Bump(@, <<uid, s.command>>)]

\* lines 125-129 with the timestamp advanced to the later of the two
FoldMsgMax(B, type, s, uid) ==
  LET key == ToString(uid) \o ":" \o type
      has == key \in DOMAIN B.msg
      oid == IF has THEN B.msg[key] ELSE NewOid(B.heap)
      entry == IF has THEN B.heap[oid]
               ELSE [uid |-> uid, type |-> type, count |-> 0,
                     timestamp |-> s.timestamp]
      later == IF s.timestamp > entry.timestamp THEN s.timestamp
               ELSE entry.timestamp
  IN [B EXCEPT
        !.heap = Put(@, oid, [entry EXCEPT !.count = @ + 1,
                                           !.timestamp = later]),
        !.msg = Put(@, key, oid),
        !.hist.msg = Bump(@, <<uid, type>>)]

\* lines 125-129: the message-type accumulator of one type
FoldMsg(B, type, s, uid) ==
  LET key == ToString(uid) \o ":" \o type
      has == key \in DOMAIN B.msg
      oid == IF has THEN B.msg[key] ELSE NewOid(B.heap)
      entry == IF has THEN B.heap[oid]
               ELSE [uid |-> uid, type |-> type, count |-> 0,
                     timestamp |-> s.timestamp]
  IN [B EXCEPT
        !.heap = Put(@, oid, [entry EXCEPT !.count = @ + 1,
                                           !.timestamp = s.timestamp]),
        !.msg = Put(@, key, oid),
        !.hist.msg = Bump(@, <<uid, type>>)]

\* lines 131-134 without rankEntry.count++
FoldRankNoIncrement(B, type, s, uid) ==
  LET hourStart == HourStart(s.timestamp)
      key == ToString(uid) \o ":" \o ISO(hourStart) \o ":" \o type
      has == key \in DOMAIN B.rank
      oid == IF has THEN B.rank[key] ELSE NewOid(B.heap)
      entry == IF has THEN B.heap[oid]
               ELSE [uid |-> uid, timestamp |-> hourStart, type |-> type,
                     count |-> 0]
  IN [B EXCEPT
        !.heap = Put(@, oid, entry),
        !.rank = Put(@, key, oid),
        !.hist.rank = Bump(@, <<uid, hourStart, type>>)]

\* lines 121, 131-134: the hourly activity bucket of one type
FoldRank(B, type, s, uid) ==
  LET hourStart == HourStart(s.timestamp)
      key == ToString(uid) \o ":" \o ISO(hourStart) \o ":" \o type
      has == key \in DOMAIN B.rank
      oid == IF has THEN B.rank[key] ELSE NewOid(B.heap)
      entry == IF has THEN B.heap[oid]
               ELSE [uid |-> uid, timestamp |-> hourStart, type |-> type,
                     count |-> 0]
  IN [B EXCEPT
        !.heap = Put(@, oid, [entry EXCEPT !.count = @ + 1]),
        !.rank = Put(@, key, oid),
        !.hist.rank = Bump(@, <<uid, hourStart, type>>)]

\* lines 124-135: the loop over the distinct element types
RECURSIVE FoldTypes(_, _, _, _)
FoldTypes(B, types, s, uid) ==
  IF types = <<>> THEN B
  ELSE FoldTypes(FoldRank(FoldMsg(B, Head(types), s, uid), Head(types), s, uid),
                 Tail(types), s, uid)

\* lines 140-145 without the test of line 142
RECURSIVE PushMentionsAll(_, _, _, _, _)
PushMentionsAll(whoAt, ats, content, s, uid) ==
  IF ats = <<>> THEN whoAt
  ELSE PushMentionsAll(Append(whoAt, [uid |-> uid, target |-> Head(ats).attrs.id,
                                      content |-> content,
                                      timestamp |-> s.timestamp]),
                       Tail(ats), content, s, uid)

\* lines 140-145: one mention record per mention of somebody else
RECURSIVE PushMentions(_, _, _, _, _)
PushMentions(whoAt, ats, content, s, uid) ==
  IF ats = <<>> THEN whoAt
  ELSE LET targetId == Head(ats).attrs.id
           next == IF targetId # "" /\ targetId # s.userId
                   THEN Append(whoAt, [uid |-> uid, target |-> targetId,
                                       content |-> content,
                                       timestamp |-> s.timestamp])
                   ELSE whoAt
       IN PushMentions(next, Tail(ats), content, s, uid)

\* lines 138-146
FoldWhoAt(B, s, uid, cfg) ==
  IF cfg.enableWhoAt
  THEN [B EXCEPT !.whoAt =
          PushMentions(@, FilterType(s.elements, "at", TRUE),
                       sanitizeContent(FilterType(s.elements, "at", FALSE)),
                       s, uid)]
  ELSE B

\* lines 149-150 without the test of enableOriRecord
FoldOriAlways(B, s, uid, cfg) ==
  [B EXCEPT !.ori = Append(@, [uid |-> uid,
                               content |-> sanitizeContent(s.elements),
                               timestamp |-> s.timestamp])]

\* lines 149-150
FoldOri(B, s, uid, cfg) ==
  IF cfg.enableOriRecord
  THEN [B EXCEPT !.ori = Append(@, [uid |-> uid,
                                    content |-> sanitizeContent(s.elements),
                                    timestamp |-> s.timestamp])]
  ELSE B

\* lines 109-150: everything onMessage does to the buffers for one event
Fold(B, s, uid, cfg) ==
  FoldOri(
    FoldWhoAt(
      FoldTypes(FoldCmd(B, s, uid), DistinctTypes(s.elements, {}), s, uid),
      s, uid, cfg),
    s, uid, cfg)

(***************************************************************************)
(* State.                                                                  *)
(***************************************************************************)
VARIABLES
  config,               \* the plugin configuration (enableWhoAt, enableOriRecord)
  analyse_user,         \* storage: the identity rows
  userAutoInc,          \* storage: the next auto-increment uid
  analyse_cmd,          \* storage: <<uid, command>> -> [count, timestamp]
  analyse_msg,          \* storage: <<uid, type>> -> [count, timestamp]
  analyse_rank,         \* storage: <<uid, hour, type>> -> [count]
  analyse_at,           \* storage: the mention log
  analyse_cache,        \* storage: the content log
  userCache,            \* cacheKey -> identity row
  pendingUserRequests,  \* cacheKey -> the promise of its resolution
  resolving,            \* promise -> the suspended resolver that settles it
  handlers,             \* the suspended onMessage handlers
  heap,                 \* accumulator objects, by identity
  cmdStatBuffer,        \* key -> accumulator object
  msgStatBuffer,
  rankStatBuffer,
  whoAtBuffer,          \* array of mention records
  oriCacheBuffer,       \* array of content records
  flushes,              \* the suspended flushBuffers calls
  flushInterval,        \* TRUE while the setInterval timer is armed
  disposed,             \* TRUE once the dispose handler has run
  logged,               \* ctx.logger.error calls, per call site
  nEvents,              \* history: events delivered
  timerFires,           \* history: timer firings
  failures,             \* history: storage calls that threw
  folded,               \* history: folds per persisted counter key
  accepted,             \* history: <<channelId, userId>> -> events past the guard
  attributed,           \* history: <<channelId, userId, uid>> -> events folded
  dbCalls,              \* history: <<operation, cacheKey>> -> calls issued
  msgBuffer,            \* append-only variant: the buffered message records
  msgFlushes,           \* append-only variant: the suspended flushBuffer calls
  msgRows,              \* append-only variant: storage, the rows of analyse_msg
  appendOnly            \* append-only variant: timer, disposal and history

storageVars ==
  <<analyse_user, userAutoInc, analyse_cmd, analyse_msg, analyse_rank,
    analyse_at, analyse_cache>>

aggVars == <<analyse_cmd, analyse_msg, analyse_rank, analyse_at, analyse_cache>>

bufferVars ==
  <<heap, cmdStatBuffer, msgStatBuffer, rankStatBuffer, whoAtBuffer,
    oriCacheBuffer, folded>>

identVars == <<userCache, pendingUserRequests, resolving, dbCalls>>

lifeVars == <<config, flushInterval, disposed, timerFires>>

vars ==
  <<config, analyse_user, userAutoInc, analyse_cmd, analyse_msg, analyse_rank,
    analyse_at, analyse_cache, userCache, pendingUserRequests, resolving,
    handlers, heap, cmdStatBuffer, msgStatBuffer, rankStatBuffer, whoAtBuffer,
    oriCacheBuffer, flushes, flushInterval, disposed, logged, nEvents,
    timerFires, failures, folded, accepted, attributed, dbCalls,
    msgBuffer, msgFlushes, msgRows, appendOnly>>

\* the state of the append-only collector variant
variantVars == <<msgBuffer, msgFlushes, msgRows, appendOnly>>

\* the state of the collector
collectorVars ==
  <<config, analyse_user, userAutoInc, analyse_cmd, analyse_msg, analyse_rank,
    analyse_at, analyse_cache, userCache, pendingUserRequests, resolving,
    handlers, heap, cmdStatBuffer, msgStatBuffer, rankStatBuffer, whoAtBuffer,
    oriCacheBuffer, flushes, flushInterval, disposed, logged, nEvents,
    timerFires, failures, folded, accepted, attributed, dbCalls>>

Range(f) == {f[x] : x \in DOMAIN f}

\* the smallest positive integer that is no key of f
NewId(f) ==
  CHOOSE n \in 1..(Cardinality(DOMAIN f) + 1) :
    n \notin DOMAIN f /\ \A m \in 1..(n - 1) : m \in DOMAIN f

\* the live buffers as one record
Live ==
  [heap |-> heap, cmd |-> cmdStatBuffer, msg |-> msgStatBuffer,
   rank |-> rankStatBuffer, whoAt |-> whoAtBuffer, ori |-> oriCacheBuffer,
   hist |-> folded]

SetLive(B) ==
  /\ heap' = B.heap
  /\ cmdStatBuffer' = B.cmd
  /\ msgStatBuffer' = B.msg
  /\ rankStatBuffer' = B.rank
  /\ whoAtBuffer' = B.whoAt
  /\ oriCacheBuffer' = B.ori
  /\ folded' = B.hist

\* an identity row that an earlier run of the plugin left in storage
StaleRow ==
  [uid |-> 7, channelId |-> "c1", userId |-> "u1", channelName |-> "old",
   userName |-> "nick"]

InitWith(cfg, rows) ==
  /\ config = cfg
  /\ analyse_user = rows
  /\ userAutoInc = IF rows = {} THEN 1 ELSE StaleRow.uid + 1
  /\ analyse_cmd = EmptyMap
  /\ analyse_msg = EmptyMap
  /\ analyse_rank = EmptyMap
  /\ analyse_at = <<>>
  /\ analyse_cache = <<>>
  /\ userCache = EmptyMap
  /\ pendingUserRequests = EmptyMap
  /\ resolving = EmptyMap
  /\ handlers = EmptyMap
  /\ heap = EmptyMap
  /\ cmdStatBuffer = EmptyMap
  /\ msgStatBuffer = EmptyMap
  /\ rankStatBuffer = EmptyMap
  /\ whoAtBuffer = <<>>
  /\ oriCacheBuffer = <<>>
  /\ flushes = EmptyMap
  /\ flushInterval = TRUE
  /\ disposed = FALSE
  /\ logged = [resolve |-> 0, flush |-> 0]
  /\ nEvents = 0
  /\ timerFires = 0
  /\ failures = 0
  /\ folded = [cmd |-> EmptyMap, msg |-> EmptyMap, rank |-> EmptyMap]
  /\ accepted = EmptyMap
  /\ attributed = EmptyMap
  /\ dbCalls = EmptyMap
  /\ msgBuffer = <<>>
  /\ msgFlushes = EmptyMap
  /\ msgRows = <<>>
  /\ appendOnly = [flushInterval |-> TRUE, disposed |-> FALSE, pushed |-> <<>>,
                   events |-> 0, timerFires |-> 0, failures |-> 0, calls |-> 0]

\* the state after the constructor (lines 44-58), on empty aggregate tables
Init ==
  \E rows \in {{}, {StaleRow}} :
    InitWith([enableWhoAt |-> TRUE, enableOriRecord |-> TRUE], rows)

(***************************************************************************)
(* flushBuffers (lines 171-195).                                           *)
(***************************************************************************)
\* the upserts of lines 187-188 exchanged
TableOrderMsgFirst == <<"msg", "cmd", "rank", "at", "cache">>

TableOrder == <<"cmd", "msg", "rank", "at", "cache">>

\* lines 172-178: the snapshot; the counter arrays hold the Maps' objects
Snapshot(B, trigger, caller) ==
  [trigger |-> trigger, caller |-> caller,
   cmd |-> Range(B.cmd), msg |-> Range(B.msg), rank |-> Range(B.rank),
   at |-> B.whoAt, cache |-> B.ori,
   pc |-> "start", req |-> {}, committed |-> {}]

\* a swap that forgets this.cmdStatBuffer.clear()
ClearedKeepCmd(B) ==
  [B EXCEPT !.msg = EmptyMap, !.rank = EmptyMap, !.whoAt = <<>>, !.ori = <<>>]

\* lines 180-184: the live buffers after the swap
Cleared(B) ==
  [B EXCEPT !.cmd = EmptyMap, !.msg = EmptyMap, !.rank = EmptyMap,
            !.whoAt = <<>>, !.ori = <<>>]

\* buffers.<t>.length > 0
NonEmpty(f, t) ==
  CASE t = "cmd" -> f.cmd # {}
    [] t = "msg" -> f.msg # {}
    [] t = "rank" -> f.rank # {}
    [] t = "at" -> f.at # <<>>
    [] t = "cache" -> f.cache # <<>>

\* the rows handed to database.upsert for table t
Request(f, t, hp) ==
  CASE t = "cmd" -> {hp[o] : o \in f.cmd}
    [] t = "msg" -> {hp[o] : o \in f.msg}
    [] t = "rank" -> {hp[o] : o \in f.rank}
    [] t = "at" -> f.at
    [] t = "cache" -> f.cache

Pos(pc) == IF pc = "start" THEN 0 ELSE CHOOSE i \in 1..5 : TableOrder[i] = pc

\* lines 187-191: the next table with a non-empty snapshot, in source order
NextTable(f) ==
  LET later == {i \in (Pos(f.pc) + 1)..5 : NonEmpty(f, TableOrder[i])}
  IN IF later = {} THEN "done"
     ELSE TableOrder[CHOOSE i \in later : \A j \in later : i <= j]

\* run flushBuffers up to its next await: issue the next upsert, or return
Advance(f, hp) ==
  LET t == NextTable(f)
  IN [f EXCEPT !.pc = t,
               !.req = IF t = "done" THEN {} ELSE Request(f, t, hp)]

\* lines 172-187: the synchronous part of flushBuffers
StartFlush(B, trigger, caller) == Advance(Snapshot(B, trigger, caller), B.heap)

\* the primary key of a row of counter table t (constructor, lines 46-48)
KeyOf(t, r) ==
  CASE t = "cmd" -> <<r.uid, r.command>>
    [] t = "msg" -> <<r.uid, r.type>>
    [] t = "rank" -> <<r.uid, r.timestamp, r.type>>

\* an upsert that overwrites the stored count: { ...item }
UpsertRowOverwrite(t, r, old) ==
  IF t = "rank" THEN [count |-> r.count]
  ELSE [count |-> r.count, timestamp |-> r.timestamp]

\* { ...item, count: $.add($.ifNull(row.count, 0), item.count) }
UpsertRow(t, r, old) ==
  IF t = "rank" THEN [count |-> old + r.count]
  ELSE [count |-> old + r.count, timestamp |-> r.timestamp]

\* the additive upsert of lines 187-189 on counter table t
UpsertCounter(tab, rows, t) ==
  LET keys == {KeyOf(t, r) : r \in rows}
  IN [k \in (DOMAIN tab) \cup keys |->
        IF k \in keys
        THEN LET r == CHOOSE x \in rows : KeyOf(t, x) = k
             IN UpsertRow(t, r, IF k \in DOMAIN tab THEN tab[k].count ELSE 0)
        ELSE tab[k]]

\* the effect on storage of the upsert that flush f awaits
Commit(f) ==
  /\ analyse_cmd' = IF f.pc = "cmd"
                    THEN UpsertCounter(analyse_cmd, f.req, "cmd")
                    ELSE analyse_cmd
  /\ analyse_msg' = IF f.pc = "msg"
                    THEN UpsertCounter(analyse_msg, f.req, "msg")
                    ELSE analyse_msg
  /\ analyse_rank' = IF f.pc = "rank"
                     THEN UpsertCounter(analyse_rank, f.req, "rank")
                     ELSE analyse_rank
  /\ analyse_at' = IF f.pc = "at" THEN analyse_at \o f.req ELSE analyse_at
  /\ analyse_cache' = IF f.pc = "cache" THEN analyse_cache \o f.req
                      ELSE analyse_cache

\* the objects some Map or some other snapshot still refers to
Referenced(fid) ==
  Range(cmdStatBuffer) \cup Range(msgStatBuffer) \cup Range(rankStatBuffer)
    \cup UNION {flushes[g].cmd \cup flushes[g].msg \cup flushes[g].rank :
                g \in (DOMAIN flushes) \ {fid}}

\* flush fid has returned: its snapshot is garbage, its caller resumes and returns
Finish(fid) ==
  LET f == flushes[fid]
      dead == (f.cmd \cup f.msg \cup f.rank) \ Referenced(fid)
  IN /\ flushes' = Del(flushes, fid)
     /\ heap' = [o \in (DOMAIN heap) \ dead |-> heap[o]]
     /\ handlers' = IF f.caller # 0 THEN Del(handlers, f.caller) ELSE handlers

(***************************************************************************)
(* onMessage (lines 65-153).                                               *)
(***************************************************************************)
KeyOfSession(s) == CacheKey(s.channelId, s.userId)

\* the host delivers events while the 'message' listener is registered
Delivering == nEvents < MaxEvents /\ ~disposed

\* the test of line 151 written with > for >=
BufferFullLate(ori) == Len(ori) > BUFFER_THRESHOLD

\* line 151: this.oriCacheBuffer.length >= Collector.BUFFER_THRESHOLD
BufferFull(ori) == Len(ori) >= BUFFER_THRESHOLD

\* an event that passed the guard of line 67
Accept(s) ==
  /\ nEvents' = nEvents + 1
  /\ accepted' = Bump(accepted, <<s.channelId, s.userId>>)

\* lines 108-152 with the content-cache block, and its await of
\* flushBuffers, placed before the mention block: the snapshot is taken
\* without the mention records of the event, which are pushed afterwards
DoFoldFlushEarly(s, user, h) ==
  LET B == Fold(Live, s, user.uid, config)
      hid == IF h = 0 THEN NewId(handlers) ELSE h
  IN /\ attributed' = Bump(attributed, <<s.channelId, s.userId, user.uid>>)
     /\ IF config.enableOriRecord /\ BufferFull(B.ori)
        THEN /\ SetLive([Cleared(B) EXCEPT !.whoAt =
                           SubSeq(B.whoAt, Len(whoAtBuffer) + 1, Len(B.whoAt))])
             /\ flushes' = Put(flushes, NewId(flushes),
                               StartFlush([B EXCEPT !.whoAt = whoAtBuffer],
                                          "threshold", hid))
             /\ handlers' = Put(handlers, hid,
                                [session |-> s, pc |-> "awaitFlush",
                                 user |-> user, awaits |-> 0])
        ELSE /\ SetLive(B)
             /\ flushes' = flushes
             /\ handlers' = IF h = 0 THEN handlers ELSE Del(handlers, h)

\* lines 108-152 for one event of sender `user`.  h is the suspended handler
\* that resumes here, or 0 when the handler has not suspended yet.
DoFold(s, user, h) ==
  LET B == Fold(Live, s, user.uid, config)
      hid == IF h = 0 THEN NewId(handlers) ELSE h
  IN /\ attributed' = Bump(attributed, <<s.channelId, s.userId, user.uid>>)
     /\ IF config.enableOriRecord /\ BufferFull(B.ori)
        THEN \* line 151: await this.flushBuffers()
             /\ SetLive(Cleared(B))
             /\ flushes' = Put(flushes, NewId(flushes),
                               StartFlush(B, "threshold", hid))
             /\ handlers' = Put(handlers, hid,
                                [session |-> s, pc |-> "awaitFlush",
                                 user |-> user, awaits |-> 0])
        ELSE /\ SetLive(B)
             /\ flushes' = flushes
             /\ handlers' = IF h = 0 THEN handlers ELSE Del(handlers, h)

\* line 67: a malformed event is dropped
DropMessage(s) ==
  /\ Delivering
  /\ IsDropped(s)
  /\ nEvents' = nEvents + 1
  /\ UNCHANGED <<storageVars, bufferVars, identVars, lifeVars, handlers,
                 flushes, logged, failures, attributed, accepted>>

\* lines 72-73 with a lookup issued on a cache hit as well
MessageCachedLookup(s) ==
  /\ Delivering
  /\ ~IsDropped(s)
  /\ KeyOfSession(s) \in DOMAIN userCache
  /\ Accept(s)
  /\ DoFold(s, userCache[KeyOfSession(s)], 0)
  /\ dbCalls' = Bump(dbCalls, <<"get", KeyOfSession(s)>>)
  /\ UNCHANGED <<storageVars, userCache, pendingUserRequests, resolving,
                 lifeVars, logged, failures>>

\* lines 72-73: cache hit, the event is folded without suspending
MessageCached(s) ==
  /\ Delivering
  /\ ~IsDropped(s)
  /\ KeyOfSession(s) \in DOMAIN userCache
  /\ Accept(s)
  /\ DoFold(s, userCache[KeyOfSession(s)], 0)
  /\ UNCHANGED <<storageVars, identVars, lifeVars, logged, failures>>

\* the promise registered under the key has settled (with null)
MarkerIsStale(key) ==
  /\ key \in DOMAIN pendingUserRequests
  /\ resolving[pendingUserRequests[key]].pc = "settled"

\* lines 74-75 with one promise for all keys: the handler awaits whichever
\* resolution is in flight
MessageAwaitAny(s) ==
  /\ Delivering
  /\ ~IsDropped(s)
  /\ KeyOfSession(s) \notin DOMAIN userCache
  /\ Accept(s)
  /\ \E key \in DOMAIN pendingUserRequests :
       handlers' = Put(handlers, NewId(handlers),
                       [session |-> s, pc |-> "awaitUser", user |-> null,
                        awaits |-> pendingUserRequests[key]])
  /\ UNCHANGED <<storageVars, bufferVars, identVars, lifeVars, flushes,
                 logged, failures, attributed>>

\* lines 74-75: a resolution is in flight, await its promise
MessageAwaitPending(s) ==
  /\ Delivering
  /\ ~IsDropped(s)
  /\ KeyOfSession(s) \notin DOMAIN userCache
  /\ KeyOfSession(s) \in DOMAIN pendingUserRequests
  /\ ~MarkerIsStale(KeyOfSession(s))
  /\ Accept(s)
  /\ handlers' = Put(handlers, NewId(handlers),
                     [session |-> s, pc |-> "awaitUser", user |-> null,
                      awaits |-> pendingUserRequests[KeyOfSession(s)]])
  /\ UNCHANGED <<storageVars, bufferVars, identVars, lifeVars, flushes,
                 logged, failures, attributed>>

\* lines 77-105 without line 104: the promise is awaited but never registered
StartResolveNoMarker(s) ==
  LET rid == NewId(resolving)
  IN /\ resolving' = Put(resolving, rid,
                         [key |-> KeyOfSession(s), pc |-> "get", session |-> s,
                          dbUser |-> null, currentChannelName |-> ""])
     /\ dbCalls' = Bump(dbCalls, <<"get", KeyOfSession(s)>>)
     /\ pendingUserRequests' = pendingUserRequests
     /\ handlers' = Put(handlers, NewId(handlers),
                        [session |-> s, pc |-> "awaitUser", user |-> null,
                         awaits |-> rid])

\* lines 77-105: the resolver runs up to `await database.get`, then its
\* promise is registered under the key and awaited
StartResolve(s) ==
  LET rid == NewId(resolving)
  IN /\ resolving' = Put(resolving, rid,
                         [key |-> KeyOfSession(s), pc |-> "get", session |-> s,
                          dbUser |-> null, currentChannelName |-> ""])
     /\ dbCalls' = Bump(dbCalls, <<"get", KeyOfSession(s)>>)
     /\ pendingUserRequests' = Put(pendingUserRequests, KeyOfSession(s), rid)
     /\ handlers' = Put(handlers, NewId(handlers),
                        [session |-> s, pc |-> "awaitUser", user |-> null,
                         awaits |-> rid])

\* lines 76-105 without the test of line 74: a resolution is started although
\* one is in flight for the key
MessageResolveNoCoalesce(s) ==
  /\ Delivering
  /\ ~IsDropped(s)
  /\ KeyOfSession(s) \notin DOMAIN userCache
  /\ Accept(s)
  /\ StartResolve(s)
  /\ UNCHANGED <<storageVars, bufferVars, userCache, lifeVars, flushes,
                 logged, failures, attributed>>

\* lines 76-105: neither cached nor pending, start a resolution
MessageResolve(s) ==
  /\ Delivering
  /\ ~IsDropped(s)
  /\ KeyOfSession(s) \notin DOMAIN userCache
  /\ KeyOfSession(s) \notin DOMAIN pendingUserRequests
  /\ Accept(s)
  /\ StartResolve(s)
  /\ UNCHANGED <<storageVars, bufferVars, userCache, lifeVars, flushes,
                 logged, failures, attributed>>

\* lines 77-108 when this.ctx.database.get throws before it returns a promise:
\* the catch (98-99) and the finally (101) of the resolver run before line 104
\* registers its promise, which is already settled with null; the handler
\* awaits it, resumes with null and returns at line 108
MessageResolveThrows(s) ==
  /\ Delivering
  /\ ~IsDropped(s)
  /\ KeyOfSession(s) \notin DOMAIN userCache
  /\ KeyOfSession(s) \notin DOMAIN pendingUserRequests
  /\ failures < MaxFailures
  /\ failures' = failures + 1
  /\ logged' = [logged EXCEPT !.resolve = @ + 1]
  /\ Accept(s)
  /\ dbCalls' = Bump(dbCalls, <<"get", KeyOfSession(s)>>)
  /\ LET rid == NewId(resolving)
     IN /\ resolving' = Put(resolving, rid,
                            [key |-> KeyOfSession(s), pc |-> "settled",
                             session |-> s, dbUser |-> null,
                             currentChannelName |-> ""])
        /\ pendingUserRequests' = Put(pendingUserRequests, KeyOfSession(s), rid)
  /\ UNCHANGED <<storageVars, bufferVars, userCache, lifeVars, handlers,
                 flushes, attributed>>

\* lines 74-75 and 108: the promise found under the key is settled with null,
\* the handler resumes with no user and returns
MessageAwaitSettled(s) ==
  /\ Delivering
  /\ ~IsDropped(s)
  /\ KeyOfSession(s) \notin DOMAIN userCache
  /\ MarkerIsStale(KeyOfSession(s))
  /\ Accept(s)
  /\ UNCHANGED <<storageVars, bufferVars, identVars, lifeVars, handlers,
                 flushes, logged, failures, attributed>>

\* lines 100-102 and the settlement of the promise: the marker of the key is
\* removed and every handler that awaits the promise is ready to resume
Settle(rid, user) ==
  /\ pendingUserRequests' = Del(pendingUserRequests, resolving[rid].key)
  /\ resolving' = Del(resolving, rid)
  /\ handlers' =
       [h \in DOMAIN handlers |->
          IF handlers[h].pc = "awaitUser" /\ handlers[h].awaits = rid
          THEN [handlers[h] EXCEPT !.pc = "resumed", !.user = user]
          ELSE handlers[h]]

\* lines 97-99: the catch block of the resolver
ResolveFailed(rid) ==
  /\ failures < MaxFailures
  /\ failures' = failures + 1
  /\ logged' = [logged EXCEPT !.resolve = @ + 1]
  /\ Settle(rid, null)
  /\ UNCHANGED <<storageVars, bufferVars, userCache, dbCalls, lifeVars,
                 flushes, nEvents, attributed, accepted>>

\* the lookup of line 79 with the two ids exchanged
MatchingSwapped(s) ==
  {row \in analyse_user : row.channelId = s.userId /\ row.userId = s.channelId}

\* the rows database.get('analyse_user', { channelId, userId }) returns
Matching(s) ==
  {row \in analyse_user : row.channelId = s.channelId /\ row.userId = s.userId}

\* lines 79-81: the lookup returns, bot.getGuild is called
GetOk(rid) ==
  /\ resolving[rid].pc = "get"
  /\ \E dbUser \in (IF Matching(resolving[rid].session) = {} THEN {null}
                    ELSE Matching(resolving[rid].session)) :
       resolving' = [resolving EXCEPT ![rid].pc = "getGuild",
                                      ![rid].dbUser = dbUser]
  /\ UNCHANGED <<storageVars, bufferVars, userCache, pendingUserRequests,
                 dbCalls, lifeVars, handlers, flushes, logged, nEvents,
                 failures, attributed, accepted>>

GetFail(rid) ==
  /\ resolving[rid].pc = "get"
  /\ ResolveFailed(rid)

\* line 85: a display name is known and differs from the stored one
NamesDiffer(dbUser, currentUserName, currentChannelName) ==
  \/ currentUserName # "" /\ dbUser.userName # currentUserName
  \/ currentChannelName # "" /\ dbUser.channelName # currentChannelName

\* lines 82-96: with the channel name known, adopt, refresh or create
Decide(rid, currentChannelName) ==
  LET r == resolving[rid]
  IN IF r.dbUser # null
     THEN IF NamesDiffer(r.dbUser, r.session.username, currentChannelName)
          THEN \* line 86: await database.set
               /\ resolving' =
                    [resolving EXCEPT ![rid].pc = "set",
                       ![rid].currentChannelName = currentChannelName]
               /\ dbCalls' = Bump(dbCalls, <<"set", r.key>>)
               /\ UNCHANGED <<userCache, pendingUserRequests, handlers>>
          ELSE \* lines 90-91
               /\ userCache' = Put(userCache, r.key, r.dbUser)
               /\ Settle(rid, r.dbUser)
               /\ UNCHANGED dbCalls
     ELSE \* line 94: await database.create
          /\ resolving' =
               [resolving EXCEPT ![rid].pc = "create",
                  ![rid].currentChannelName = currentChannelName]
          /\ dbCalls' = Bump(dbCalls, <<"create", r.key>>)
          /\ UNCHANGED <<userCache, pendingUserRequests, handlers>>

\* line 81: bot.getGuild resolves with a guild
GuildOk(rid, name) ==
  /\ resolving[rid].pc = "getGuild"
  /\ Decide(rid, name)
  /\ UNCHANGED <<storageVars, bufferVars, lifeVars, flushes, logged, nEvents,
                 failures, attributed, accepted>>

\* line 81 without .catch(() => null): the rejection reaches the catch of 97
GuildFailThrows(rid) ==
  /\ resolving[rid].pc = "getGuild"
  /\ ResolveFailed(rid)

\* line 81: bot.getGuild rejects, .catch(() => null)
GuildFail(rid) ==
  /\ resolving[rid].pc = "getGuild"
  /\ Decide(rid, "")
  /\ UNCHANGED <<storageVars, bufferVars, lifeVars, flushes, logged, nEvents,
                 failures, attributed, accepted>>

\* lines 86-91 with the refreshed names put into the cached object only
SetOkCacheOnly(rid) ==
  /\ resolving[rid].pc = "set"
  /\ LET r == resolving[rid]
         refreshed == [r.dbUser EXCEPT !.userName = r.session.username,
                                       !.channelName = r.currentChannelName]
     IN /\ analyse_user' = analyse_user
        /\ userCache' = Put(userCache, r.key, refreshed)
        /\ Settle(rid, refreshed)
  /\ UNCHANGED <<userAutoInc, aggVars, bufferVars, dbCalls, lifeVars, flushes,
                 logged, nEvents, failures, attributed, accepted>>

\* lines 86-91: the refresh of the display names returns
SetOk(rid) ==
  /\ resolving[rid].pc = "set"
  /\ LET r == resolving[rid]
         refreshed == [r.dbUser EXCEPT !.userName = r.session.username,
                                       !.channelName = r.currentChannelName]
     IN /\ analyse_user' =
             {IF row.uid = r.dbUser.uid
              THEN [row EXCEPT !.userName = r.session.username,
                               !.channelName = r.currentChannelName]
              ELSE row : row \in analyse_user}
        /\ userCache' = Put(userCache, r.key, refreshed)
        /\ Settle(rid, refreshed)
  /\ UNCHANGED <<userAutoInc, aggVars, bufferVars, dbCalls, lifeVars, flushes,
                 logged, nEvents, failures, attributed, accepted>>

SetFail(rid) ==
  /\ resolving[rid].pc = "set"
  /\ ResolveFailed(rid)

\* lines 94-96: the identity row is created
CreateOk(rid) ==
  /\ resolving[rid].pc = "create"
  /\ LET r == resolving[rid]
         createdUser == [uid |-> userAutoInc,
                         channelId |-> r.session.channelId,
                         userId |-> r.session.userId,
                         channelName |-> r.currentChannelName,
                         userName |-> r.session.username]
     IN /\ analyse_user' = analyse_user \cup {createdUser}
        /\ userAutoInc' = userAutoInc + 1
        /\ userCache' = Put(userCache, r.key, createdUser)
        /\ Settle(rid, createdUser)
  /\ UNCHANGED <<aggVars, bufferVars, dbCalls, lifeVars, flushes, logged,
                 nEvents, failures, attributed, accepted>>

CreateFail(rid) ==
  /\ resolving[rid].pc = "create"
  /\ ResolveFailed(rid)

\* lines 105-108: a handler resumes with the result of the resolution
Resume(h) ==
  /\ handlers[h].pc = "resumed"
  /\ IF handlers[h].user = null
     THEN \* line 108
          /\ handlers' = Del(handlers, h)
          /\ UNCHANGED <<bufferVars, flushes, attributed>>
     ELSE DoFold(handlers[h].session, handlers[h].user, h)
  /\ UNCHANGED <<storageVars, identVars, lifeVars, logged, nEvents, failures,
                 accepted>>

(***************************************************************************)
(* The drains.                                                             *)
(***************************************************************************)
\* flushBuffers() called from the timer or from the dispose handler
Drain(trigger) ==
  LET f == StartFlush(Live, trigger, 0)
  IN /\ SetLive(Cleared(Live))
     /\ flushes' = IF f.pc = "done" THEN flushes
                   ELSE Put(flushes, NewId(flushes), f)

\* line 53: the interval timer fires
TimerFlush ==
  /\ flushInterval
  /\ timerFires < MaxTimerFlush
  /\ timerFires' = timerFires + 1
  /\ Drain("timer")
  /\ UNCHANGED <<storageVars, identVars, config, flushInterval, disposed,
                 handlers, logged, nEvents, failures, attributed, accepted>>

\* a dispose handler that forgets clearInterval(this.flushInterval)
DisposeKeepTimer ==
  /\ ~disposed
  /\ disposed' = TRUE
  /\ Drain("dispose")
  /\ UNCHANGED <<storageVars, identVars, config, flushInterval, timerFires,
                 handlers, logged, nEvents, failures, attributed, accepted>>

\* lines 54-57: the dispose handler
Dispose ==
  /\ ~disposed
  /\ disposed' = TRUE
  /\ flushInterval' = FALSE
  /\ Drain("dispose")
  /\ UNCHANGED <<storageVars, identVars, config, timerFires, handlers, logged,
                 nEvents, failures, attributed, accepted>>

\* lines 187-191: the awaited upsert returns; the next one is issued
CommitOk(fid) ==
  /\ Commit(flushes[fid])
  /\ LET f == Advance([flushes[fid] EXCEPT !.committed = @ \cup {flushes[fid].pc}],
                      heap)
     IN IF f.pc = "done" THEN Finish(fid)
        ELSE /\ flushes' = Put(flushes, fid, f)
             /\ UNCHANGED <<heap, handlers>>
  /\ UNCHANGED <<analyse_user, userAutoInc, cmdStatBuffer, msgStatBuffer,
                 rankStatBuffer, whoAtBuffer, oriCacheBuffer, folded,
                 identVars, lifeVars, logged, nEvents, failures, attributed,
                 accepted>>

\* a catch block that puts the command accumulators of the failed snapshot
\* back into this.cmdStatBuffer
CommitFailRequeue(fid) ==
  LET f == flushes[fid]
      KeyIn(o) == ToString(heap[o].uid) \o ":" \o heap[o].command
      keys == {KeyIn(o) : o \in f.cmd}
  IN /\ failures < MaxFailures
     /\ failures' = failures + 1
     /\ logged' = [logged EXCEPT !.flush = @ + 1]
     /\ flushes' = Del(flushes, fid)
     /\ handlers' = IF f.caller # 0 THEN Del(handlers, f.caller) ELSE handlers
     /\ cmdStatBuffer' =
          [k \in (DOMAIN cmdStatBuffer) \cup keys |->
             IF k \in DOMAIN cmdStatBuffer THEN cmdStatBuffer[k]
             ELSE CHOOSE o \in f.cmd : KeyIn(o) = k]
     /\ UNCHANGED <<storageVars, heap, msgStatBuffer, rankStatBuffer,
                    whoAtBuffer, oriCacheBuffer, folded, identVars, lifeVars,
                    nEvents, attributed, accepted>>

\* lines 192-194: the awaited upsert throws; the error is logged
CommitFail(fid) ==
  /\ failures < MaxFailures
  /\ failures' = failures + 1
  /\ logged' = [logged EXCEPT !.flush = @ + 1]
  /\ Finish(fid)
  /\ UNCHANGED <<storageVars, cmdStatBuffer, msgStatBuffer, rankStatBuffer,
                 whoAtBuffer, oriCacheBuffer, folded, identVars, lifeVars,
                 nEvents, attributed, accepted>>

\* one step of the collector, the host delivering sessions of S
Step(S) ==
  \/ (\E s \in S : DropMessage(s)) /\ UNCHANGED variantVars
  \/ (\E s \in S : MessageCached(s)) /\ UNCHANGED variantVars
  \/ (\E s \in S : MessageAwaitPending(s)) /\ UNCHANGED variantVars
  \/ (\E s \in S : MessageResolve(s)) /\ UNCHANGED variantVars
  \/ (\E rid \in DOMAIN resolving : GetOk(rid)) /\ UNCHANGED variantVars
  \/ (\E rid \in DOMAIN resolving : GetFail(rid)) /\ UNCHANGED variantVars
  \/ (\E rid \in DOMAIN resolving, name \in GuildNames : GuildOk(rid, name)) /\ UNCHANGED variantVars
  \/ (\E rid \in DOMAIN resolving : GuildFail(rid)) /\ UNCHANGED variantVars
  \/ (\E rid \in DOMAIN resolving : SetOk(rid)) /\ UNCHANGED variantVars
  \/ (\E rid \in DOMAIN resolving : SetFail(rid)) /\ UNCHANGED variantVars
  \/ (\E rid \in DOMAIN resolving : CreateOk(rid)) /\ UNCHANGED variantVars
  \/ (\E rid \in DOMAIN resolving : CreateFail(rid)) /\ UNCHANGED variantVars
  \/ (\E h \in DOMAIN handlers : Resume(h)) /\ UNCHANGED variantVars
  \/ (TimerFlush) /\ UNCHANGED variantVars
  \/ (Dispose) /\ UNCHANGED variantVars
  \/ (\E fid \in DOMAIN flushes : CommitOk(fid)) /\ UNCHANGED variantVars
  \/ (\E fid \in DOMAIN flushes : CommitFail(fid)) /\ UNCHANGED variantVars

Next == Step(DrainSessions)

NextIdentity == Step(IdentitySessions)

\* the drains of one sender's events
Spec == Init /\ [][Next]_vars

\* the identities of two senders
SpecIdentity == Init /\ [][NextIdentity]_vars

\* a well-formed event and events without channelId, without userId, without
\* content and with blank content
GuardSessions ==
  {PingSession("c1", "u1", 1),
   PingSession("", "u1", 1),
   PingSession("c1", "", 1),
   [PingSession("c2", "u1", 1) EXCEPT !.content = ""],
   [PingSession("c3", "u1", 1) EXCEPT !.content = "  "]}

NextGuard == Step(GuardSessions)

SpecGuard == Init /\ [][NextGuard]_vars

\* the storage service settles the upsert that some drain awaits
StorageAnswers ==
  /\ \E fid \in DOMAIN flushes : CommitOk(fid) \/ CommitFail(fid)
  /\ UNCHANGED variantVars

\* the interval timer of line 53 fires
TimerFires == TimerFlush /\ UNCHANGED variantVars

\* the interval timer of line 53 keeps firing while it is set, and storage
\* answers every upsert it was handed
SpecFair ==
  Init /\ [][Next]_vars /\ WF_vars(TimerFires) /\ WF_vars(StorageAnswers)

\* the storage service settles the call that some resolver awaits
StorageSettles ==
  /\ \E rid \in DOMAIN resolving :
       \/ GetOk(rid) \/ GetFail(rid)
       \/ SetOk(rid) \/ SetFail(rid)
       \/ CreateOk(rid) \/ CreateFail(rid)
  /\ UNCHANGED variantVars

\* a handler whose promise has settled is resumed by the event loop
Resumes == (\E h \in DOMAIN handlers : Resume(h)) /\ UNCHANGED variantVars

\* storage answers every call of a resolver and settled handlers resume; the
\* host is free never to answer bot.getGuild
SpecHostStalls ==
  Init /\ [][NextIdentity]_vars /\ WF_vars(StorageSettles) /\ WF_vars(Resumes)

\* messages with elements of every kind sanitizeContent has a rule for, and
\* of one it has none for
NextSanitize == Step(SanitizeSessions)

SpecSanitize == Init /\ [][NextSanitize]_vars

\* a message of text elements only
NextText == Step(TextSessions)

SpecText == Init /\ [][NextText]_vars

\* the sender of the first pool under its name and under a new name
RenamedSession == [PingSession("c1", "u1", 2) EXCEPT !.username = "nico"]

RenameSessions == {PingSession("c1", "u1", 1), RenamedSession, BlankSession}

NextRename == Step(RenameSessions)

SpecRename == Init /\ [][NextRename]_vars

\* two pairs whose ids contain the separator of the cache key, so that the
\* template of line 69 gives both the key "a:b:c", and the sender of the
\* first pool
CollideSessions ==
  {PingSession("a:b", "c", 1), PingSession("a", "b:c", 1),
   PingSession("c1", "u1", 1), BlankSession}

NextCollide == Step(CollideSessions)

SpecCollide == Init /\ [][NextCollide]_vars

\* lines 16-19 of the configuration: each optional log is switched on or off
Configs == [enableWhoAt : BOOLEAN, enableOriRecord : BOOLEAN]

InitConfig == \E cfg \in Configs, rows \in {{}, {StaleRow}} : InitWith(cfg, rows)

\* the plugin under any of the four configurations
SpecConfig == InitConfig /\ [][Next]_vars

\* a message that mentions its own sender, nobody, and another user
SelfMentionSession ==
  [channelId |-> "c1", userId |-> "u1", content |-> "yo", username |-> "nick",
   timestamp |-> 4, command |-> "",
   elements |-> <<At("u1"), Text("yo"), At(""), At("u2")>>]

MentionSessions ==
  {MentionSession("c1", "u1", 2), SelfMentionSession, BlankSession}

NextMention == Step(MentionSessions)

SpecMention == Init /\ [][NextMention]_vars

\* one sender, and a storage service whose lookup may throw when it is called
EarlyThrowSessions == {PingSession("c1", "u1", 1), BlankSession}

NextEarlyThrow ==
  \/ Step(EarlyThrowSessions)
  \/ (\E s \in EarlyThrowSessions : MessageResolveThrows(s)) /\ UNCHANGED variantVars
  \/ (\E s \in EarlyThrowSessions : MessageAwaitSettled(s)) /\ UNCHANGED variantVars

SpecEarlyThrow == Init /\ [][NextEarlyThrow]_vars

(***************************************************************************)
(* Observations of the state that the properties below are stated with.    *)
(***************************************************************************)
Count(f, k) == IF k \in DOMAIN f THEN f[k] ELSE 0

\* the storage or host calls of kind op issued for a cache key
Calls(op, key) == Count(dbCalls, <<op, key>>)

CounterTables == {"cmd", "msg", "rank"}

\* the persisted count of primary key k of counter table t
Persisted(t, k) ==
  LET tab == CASE t = "cmd" -> analyse_cmd
               [] t = "msg" -> analyse_msg
               [] t = "rank" -> analyse_rank
  IN IF k \in DOMAIN tab THEN tab[k].count ELSE 0

\* the sum of the counts of the accumulator objects of os
RECURSIVE SumCounts(_, _)
SumCounts(os, hp) ==
  IF os = {} THEN 0
  ELSE LET o == CHOOSE x \in os : TRUE
       IN hp[o].count + SumCounts(os \ {o}, hp)

\* the objects of the live counter buffer t
LiveObjects(t) ==
  CASE t = "cmd" -> Range(cmdStatBuffer)
    [] t = "msg" -> Range(msgStatBuffer)
    [] t = "rank" -> Range(rankStatBuffer)

\* the count that the live buffer t holds for primary key k
LiveCount(t, k) ==
  SumCounts({o \in LiveObjects(t) : KeyOf(t, heap[o]) = k}, heap)

\* the objects of table t in the snapshot of flush f
Objects(f, t) ==
  CASE t = "cmd" -> f.cmd
    [] t = "msg" -> f.msg
    [] t = "rank" -> f.rank

\* flush f has taken its snapshot of table t and not yet committed it
Uncommitted(f, t) == Pos(f.pc) <= Pos(t)

\* the count for primary key k that the suspended flushes have yet to commit
RECURSIVE InFlightOf(_, _, _)
InFlightOf(fids, t, k) ==
  IF fids = {} THEN 0
  ELSE LET fid == CHOOSE x \in fids : TRUE
           f == flushes[fid]
           mine == IF Uncommitted(f, t)
                   THEN SumCounts({o \in Objects(f, t) : KeyOf(t, heap[o]) = k},
                                  heap)
                   ELSE 0
       IN mine + InFlightOf(fids \ {fid}, t, k)

InFlight(t, k) == InFlightOf(DOMAIN flushes, t, k)

\* the primary keys of counter table t that an event was folded into
FoldedKeys(t) == DOMAIN folded[t]

BuffersEmpty ==
  /\ cmdStatBuffer = EmptyMap
  /\ msgStatBuffer = EmptyMap
  /\ rankStatBuffer = EmptyMap
  /\ whoAtBuffer = <<>>
  /\ oriCacheBuffer = <<>>

(***************************************************************************)
(* C2: when no commit fails, for every counter key the persisted count,    *)
(* the count still held by suspended drains and the count in the live      *)
(* buffer add up to the number of events folded into the key, whatever the *)
(* order of the events and the placement of the drains; so once the        *)
(* buffers are drained and no drain is suspended, the persisted count is   *)
(* the number of events folded.                                            *)
(***************************************************************************)
C2_CountsAddUp ==
  logged.flush = 0 =>
    \A t \in CounterTables : \A k \in FoldedKeys(t) :
      /\ Persisted(t, k) + InFlight(t, k) + LiveCount(t, k) = folded[t][k]
      /\ (BuffersEmpty /\ flushes = EmptyMap) => Persisted(t, k) = folded[t][k]

\* two invocations of one command, one committed by a first drain and the
\* other in the snapshot of a second drain
C2_Witness ==
  /\ logged.flush = 0
  /\ \E k \in FoldedKeys("cmd") :
       /\ folded.cmd[k] = 2
       /\ Persisted("cmd", k) = 1
       /\ InFlight("cmd", k) = 1

(***************************************************************************)
(* C3: no folded increment is applied to storage twice.  The snapshots of  *)
(* two drains share no accumulator object, no snapshot shares an object    *)
(* with a live buffer, and the persisted count of a key, even together     *)
(* with what is still buffered for it, never exceeds the number of events  *)
(* folded into the key; this holds with overlapping drains and with        *)
(* failing commits.                                                        *)
(***************************************************************************)
C3_NoDoubleApply ==
  /\ \A f1, f2 \in DOMAIN flushes : \A t \in CounterTables :
       f1 # f2 => Objects(flushes[f1], t) \cap Objects(flushes[f2], t) = {}
  /\ \A fid \in DOMAIN flushes : \A t \in CounterTables :
       Objects(flushes[fid], t) \cap LiveObjects(t) = {}
  /\ \A t \in CounterTables : \A k \in FoldedKeys(t) :
       Persisted(t, k) + InFlight(t, k) + LiveCount(t, k) <= folded[t][k]

\* two drains are suspended at once, each with a command accumulator
C3_Witness ==
  \E f1, f2 \in DOMAIN flushes :
    /\ f1 # f2
    /\ flushes[f1].cmd # {}
    /\ flushes[f2].cmd # {}

\* two snapshots hold the same objects and the same records
SameSnapshot(f, g) ==
  /\ f.cmd = g.cmd
  /\ f.msg = g.msg
  /\ f.rank = g.rank
  /\ f.at = g.at
  /\ f.cache = g.cache

\* s is an initial segment of r
IsPrefix(s, r) == Len(s) <= Len(r) /\ \A i \in 1..Len(s) : s[i] = r[i]

\* what is buffered for key k, in the live buffer or in a suspended drain
Buffered(t, k) == LiveCount(t, k) + InFlight(t, k)

(***************************************************************************)
(* C4: an event folded after a drain took its snapshot does not reach that *)
(* snapshot.  In every step, a drain that stays suspended keeps its        *)
(* snapshot (the same objects, the same records) and none of its objects   *)
(* is modified; a drain that begins takes every object and record of the   *)
(* live buffers; and a step that folds an event adds its increments to the *)
(* live buffers or to the snapshot of the drain this step begins.          *)
(***************************************************************************)
C4_SnapshotIsolation ==
  [][ /\ \A fid \in (DOMAIN flushes) \cap (DOMAIN flushes') :
           /\ SameSnapshot(flushes[fid], flushes'[fid])
           /\ \A t \in CounterTables : \A o \in Objects(flushes[fid], t) :
                heap'[o] = heap[o]
      /\ \A fid \in (DOMAIN flushes') \ (DOMAIN flushes) :
           /\ \A t \in CounterTables :
                LiveObjects(t) \subseteq Objects(flushes'[fid], t)
           /\ IsPrefix(whoAtBuffer, flushes'[fid].at)
           /\ IsPrefix(oriCacheBuffer, flushes'[fid].cache)
           /\ BuffersEmpty'
      /\ folded' # folded =>
           \A t \in CounterTables : \A k \in DOMAIN folded'[t] :
             Buffered(t, k)' - Buffered(t, k)
               = folded'[t][k] - Count(folded[t], k)
    ]_vars

\* while a drain is suspended with the count of a key in its snapshot, the
\* live buffer holds a later event of the same key
C4_Witness ==
  \E fid \in DOMAIN flushes : \E k \in FoldedKeys("cmd") :
    /\ \E o \in flushes[fid].cmd : KeyOf("cmd", heap[o]) = k
    /\ Uncommitted(flushes[fid], "cmd")
    /\ LiveCount("cmd", k) = 1

(***************************************************************************)
(* Observations of the identities.                                         *)
(***************************************************************************)
RECURSIVE SumOf(_, _)
SumOf(f, keys) ==
  IF keys = {} THEN 0
  ELSE LET k == CHOOSE x \in keys : TRUE
       IN f[k] + SumOf(f, keys \ {k})

\* the uids that events of the pair were folded under
UidsOf(channelId, userId) ==
  {x[3] : x \in {y \in DOMAIN attributed : y[1] = channelId /\ y[2] = userId}}

\* the events of the pair that were folded
FoldedFor(channelId, userId) ==
  SumOf(attributed,
        {y \in DOMAIN attributed : y[1] = channelId /\ y[2] = userId})

\* a handler of the pair has yet to reach line 108
Waiting(channelId, userId) ==
  \E h \in DOMAIN handlers :
    /\ handlers[h].session.channelId = channelId
    /\ handlers[h].session.userId = userId
    /\ handlers[h].pc \in {"awaitUser", "resumed"}

\* the identity rows of the pair
RowsOf(channelId, userId) ==
  {row \in analyse_user : row.channelId = channelId /\ row.userId = userId}

\* the pair had its identity row before the collector was constructed
KnownBefore(channelId, userId) ==
  \E row \in RowsOf(channelId, userId) : row.uid = StaleRow.uid

\* no resolution of the key is in flight
Settled(key) ==
  /\ key \notin DOMAIN pendingUserRequests
  /\ \A rid \in DOMAIN resolving : resolving[rid].key # key

C5_OneRowPerPair ==
  \A r1, r2 \in analyse_user :
    /\ (r1.channelId = r2.channelId /\ r1.userId = r2.userId) => r1 = r2
    /\ r1.uid = r2.uid => r1 = r2

\* two handlers of one never-seen pair were accepted and the pair has its
\* created row
C5_Witness ==
  \E p \in DOMAIN accepted :
    /\ accepted[p] = 2
    /\ \E row \in RowsOf(p[1], p[2]) : row.uid # StaleRow.uid

\* handler h has its user in the next state and had not in this one
Obtains(h) ==
  /\ handlers'[h].pc = "resumed"
  /\ handlers'[h].user # null
  /\ h \in DOMAIN handlers => handlers[h].pc = "awaitUser"

Begun == (DOMAIN flushes') \ (DOMAIN flushes)

\* some live buffer holds a record
SomethingBuffered ==
  ~BuffersEmpty \/ whoAtBuffer # <<>> \/ oriCacheBuffer # <<>>

\* the count for key k in the counter snapshot that flush f is committing
Committing(f, k) ==
  SumCounts({o \in Objects(f, f.pc) : KeyOf(f.pc, heap[o]) = k}, heap)

\* the upsert that flush fid awaits returns in this step
Returns(fid) ==
  /\ logged' = logged
  /\ fid \notin DOMAIN flushes' \/ flushes'[fid].pc # flushes[fid].pc

C8_AsStated ==
  /\ Len(whoAtBuffer) < BUFFER_THRESHOLD
  /\ Len(oriCacheBuffer) < BUFFER_THRESHOLD

(***************************************************************************)
(* C8: a drain begins when the timer fires and, independently, in the step *)
(* in which the number of content records in oriCacheBuffer reaches        *)
(* BUFFER_THRESHOLD; the number of mention records in whoAtBuffer begins   *)
(* no drain.  So oriCacheBuffer never holds BUFFER_THRESHOLD records when  *)
(* a handler has returned or is suspended, a drain that begins with the    *)
(* threshold as its cause has BUFFER_THRESHOLD content records in its      *)
(* snapshot, and a firing timer takes whatever is buffered.                *)
(***************************************************************************)
C8_ThresholdDrain ==
  /\ [](Len(oriCacheBuffer) < BUFFER_THRESHOLD)
  /\ [][ /\ \A fid \in Begun :
              /\ flushes'[fid].trigger = "threshold" <=>
                   Len(flushes'[fid].cache) = BUFFER_THRESHOLD
              /\ flushes'[fid].trigger = "timer" <=> timerFires' # timerFires
              /\ flushes'[fid].trigger = "dispose" <=> disposed' # disposed
         /\ (timerFires' # timerFires /\ SomethingBuffered) => Begun # {}
         /\ (timerFires' # timerFires \/ Begun # {}) =>
              /\ BuffersEmpty' /\ whoAtBuffer' = <<>> /\ oriCacheBuffer' = <<>>
       ]_vars

\* a drain that the threshold caused is in flight
C8_Witness ==
  \E fid \in DOMAIN flushes :
    /\ flushes[fid].trigger = "threshold"
    /\ Len(flushes[fid].cache) = BUFFER_THRESHOLD

\* the tables whose upsert precedes that of table u in flushBuffers
Earlier(u) ==
  CASE u = "cmd" -> {}
    [] u = "msg" -> {"cmd"}
    [] u = "rank" -> {"cmd", "msg"}
    [] u = "at" -> {"cmd", "msg", "rank"}
    [] u = "cache" -> {"cmd", "msg", "rank", "at"}

\* the aggregate and log tables that this step writes
Written ==
  {u \in {"cmd", "msg", "rank", "at", "cache"} :
     CASE u = "cmd" -> analyse_cmd' # analyse_cmd
       [] u = "msg" -> analyse_msg' # analyse_msg
       [] u = "rank" -> analyse_rank' # analyse_rank
       [] u = "at" -> analyse_at' # analyse_at
       [] u = "cache" -> analyse_cache' # analyse_cache}

(***************************************************************************)
(* C9 as stated: a reader never sees some of a drain's writes without the  *)
(* others, so no drain that still has a table to write has written one.    *)
(***************************************************************************)
C9_AsStated ==
  \A fid \in DOMAIN flushes : flushes[fid].committed = {}

(***************************************************************************)
(* C9: a drain writes its non-empty snapshots one table per step, in the   *)
(* order analyse_cmd, analyse_msg, analyse_rank, analyse_at,               *)
(* analyse_cache.  A reader interleaved with a drain sees the writes to    *)
(* the tables that precede the one being written and none of the others:   *)
(* every step writes at most one table, the table a suspended drain awaits *)
(* has a non-empty snapshot, every non-empty snapshot of an earlier table  *)
(* is committed, and no later one is.                                      *)
(***************************************************************************)
C9_OneTableAtATime ==
  /\ [](\A fid \in DOMAIN flushes :
          LET f == flushes[fid]
          IN /\ f.pc \in {"cmd", "msg", "rank", "at", "cache"}
             /\ NonEmpty(f, f.pc)
             /\ f.committed = {u \in Earlier(f.pc) : NonEmpty(f, u)})
  /\ [][ /\ Cardinality(Written) <= 1
         /\ \A fid \in DOMAIN flushes :
              Returns(fid) => Written = {flushes[fid].pc}
         /\ Written # {} => \E fid \in DOMAIN flushes : Returns(fid)
       ]_vars

\* a reader sees the command counts of a drain and not yet its message counts
C9_Witness ==
  \E fid \in DOMAIN flushes :
    /\ flushes[fid].committed = {"cmd"}
    /\ flushes[fid].pc = "msg"
    /\ analyse_cmd # EmptyMap
    /\ analyse_msg = EmptyMap

(***************************************************************************)
(* C10: a step in which a commit throws logs the error and changes neither *)
(* the live buffers nor storage: the failed snapshot is not put back, the  *)
(* failed drain is gone, and the handler that awaited it returns.  So the  *)
(* live counter buffers never hold an accumulator of a snapshot, failed or *)
(* not, and what they hold was folded after the last swap.                 *)
(***************************************************************************)
C10_FailedSnapshotDiscarded ==
  /\ [](\A u \in CounterTables : \A k \in FoldedKeys(u) :
          Persisted(u, k) + InFlight(u, k) + LiveCount(u, k) <= folded[u][k])
  /\ [][ logged'.flush # logged.flush =>
           /\ logged'.flush = logged.flush + 1
           /\ cmdStatBuffer' = cmdStatBuffer
           /\ msgStatBuffer' = msgStatBuffer
           /\ rankStatBuffer' = rankStatBuffer
           /\ whoAtBuffer' = whoAtBuffer
           /\ oriCacheBuffer' = oriCacheBuffer
           /\ \A u \in CounterTables : \A o \in LiveObjects(u) :
                heap'[o] = heap[o]
           /\ storageVars' = storageVars
           /\ \E fid \in DOMAIN flushes :
                /\ flushes' = Del(flushes, fid)
                /\ flushes[fid].caller # 0 =>
                     flushes[fid].caller \notin DOMAIN handlers'
                /\ \A h \in DOMAIN handlers' :
                     h \in DOMAIN handlers /\ handlers'[h] = handlers[h]
       ]_vars

\* a commit has failed and the events of its snapshot are in no buffer, in no
\* drain and not in storage
C10_Witness ==
  /\ logged.flush = 1
  /\ flushes = EmptyMap
  /\ \E k \in FoldedKeys("cmd") :
       /\ folded.cmd[k] = 2
       /\ Persisted("cmd", k) = 0
       /\ LiveCount("cmd", k) = 1

(***************************************************************************)
(* C11 as stated: no failure leaves a key for which later events are       *)
(* dropped.  A valid event that arrives in a step in which nothing fails   *)
(* is folded in that step or its handler waits for the resolution of its   *)
(* key.                                                                    *)
(***************************************************************************)
C11_AsStated ==
  [][ (accepted' # accepted /\ logged' = logged) =>
        \/ attributed' # attributed
        \/ DOMAIN handlers' # DOMAIN handlers
    ]_vars

(***************************************************************************)
(* C12 as stated: pendingUserRequests holds a marker for a key only while  *)
(* the resolution of the key is unsettled.                                 *)
(***************************************************************************)
C12_AsStated ==
  \A key \in DOMAIN pendingUserRequests :
    /\ pendingUserRequests[key] \in DOMAIN resolving
    /\ resolving[pendingUserRequests[key]].pc # "settled"

\* the identity rows that this collector created
Created == {row \in analyse_user : row.uid # StaleRow.uid}

\* the resolver of promise rid takes this step
Moved(rid) == rid \notin DOMAIN resolving' \/ resolving'[rid] # resolving[rid]

Stamped == LiveObjects("cmd") \cup LiveObjects("msg")

\* the same after this step, with those a drain begun by this step took
StampedNext ==
  LiveObjects("cmd")' \cup LiveObjects("msg")'
    \cup UNION {flushes'[fid].cmd \cup flushes'[fid].msg : fid \in Begun}

\* accumulator o is created or updated by this step
Touched(o) == o \notin DOMAIN heap \/ heap'[o] # heap[o]

InHour(b, t) == b % HourLen = 0 /\ b <= t /\ t < b + HourLen

\* the element types of session s
TypesOf(s) == {s.elements[i].type : i \in DOMAIN s.elements}

\* the activity buckets that the live buffer holds after this step, with those
\* a drain begun by this step took
BucketsNext ==
  LiveObjects("rank")' \cup UNION {flushes'[fid].rank : fid \in Begun}

(***************************************************************************)
(* C15: a step that folds an event creates or increments, for each element *)
(* type of the event, the one activity bucket that starts at the top of    *)
(* the hour containing the event's own timestamp, and no other bucket,     *)
(* whatever was folded or drained before; the live buffer holds one bucket *)
(* per key, and the upsert of a drain adds the count of each bucket to the *)
(* persisted row of its key, so a late event of an hour already drained    *)
(* adds to the row of that hour.                                           *)
(***************************************************************************)
C15_OwnHour ==
  /\ [](\A o1, o2 \in LiveObjects("rank") :
          KeyOf("rank", heap[o1]) = KeyOf("rank", heap[o2]) => o1 = o2)
  /\ [][ /\ folded' # folded =>
              \E s \in DrainSessions :
                /\ \A o \in StampedNext : Touched(o) => heap'[o].timestamp = s.timestamp
                /\ \A o \in BucketsNext :
                     Touched(o) =>
                       /\ InHour(heap'[o].timestamp, s.timestamp)
                       /\ heap'[o].type \in TypesOf(s)
                       /\ heap'[o].count
                            = IF o \in DOMAIN heap THEN heap[o].count + 1 ELSE 1
                       /\ o \in DOMAIN heap => heap'[o].timestamp = heap[o].timestamp
                /\ \A type \in TypesOf(s) :
                     Cardinality({o \in BucketsNext :
                                    Touched(o) /\ heap'[o].type = type}) = 1
         /\ \A fid \in DOMAIN flushes :
              (flushes[fid].pc = "rank" /\ Returns(fid)) =>
                /\ \A k \in FoldedKeys("rank") :
                     Persisted("rank", k)'
                       = Persisted("rank", k) + Committing(flushes[fid], k)
                /\ DOMAIN analyse_rank'
                     = (DOMAIN analyse_rank)
                         \cup {KeyOf("rank", heap[o]) : o \in flushes[fid].rank}
       ]_vars

\* the row of an hour is persisted and a drain is about to add to it the bucket
\* of a later event of the same hour
C15_Witness ==
  \E k \in FoldedKeys("rank") : \E fid \in DOMAIN flushes :
    /\ InHour(k[2], 1)
    /\ Persisted("rank", k) = 1
    /\ flushes[fid].pc = "rank"
    /\ Committing(flushes[fid], k) = 1

\* the rows of counter table u
TableOf(u) ==
  CASE u = "cmd" -> analyse_cmd
    [] u = "msg" -> analyse_msg
    [] u = "rank" -> analyse_rank

\* the primary keys of the accumulators of table u in the snapshot of flush f
SnapshotKeys(f, u) == {KeyOf(u, heap[o]) : o \in Objects(f, u)}

(***************************************************************************)
(* C16: the upsert of a counter drain is additive and keyed by the primary *)
(* key.  When it returns, a key of the snapshot that had a row has the     *)
(* count of that row plus the snapshot's count, a key that had none has a  *)
(* row with the snapshot's count, every other row is as it was, and the    *)
(* table has one row per key.                                              *)
(***************************************************************************)
C16_AdditiveUpsert ==
  [][ \A fid \in DOMAIN flushes : \A u \in CounterTables :
        (flushes[fid].pc = u /\ Returns(fid)) =>
          /\ DOMAIN TableOf(u)' = (DOMAIN TableOf(u)) \cup SnapshotKeys(flushes[fid], u)
          /\ \A k \in SnapshotKeys(flushes[fid], u) :
               TableOf(u)'[k].count
                 = (IF k \in DOMAIN TableOf(u) THEN TableOf(u)[k].count ELSE 0)
                     + Committing(flushes[fid], k)
          /\ \A k \in (DOMAIN TableOf(u)) \ SnapshotKeys(flushes[fid], u) :
               TableOf(u)'[k] = TableOf(u)[k]
    ]_vars

\* a drain is about to add the count of a later invocation to the row that an
\* earlier drain inserted for the same command and uid
C16_Witness ==
  \E fid \in DOMAIN flushes : \E k \in SnapshotKeys(flushes[fid], "cmd") :
    /\ flushes[fid].pc = "cmd"
    /\ k \in DOMAIN analyse_cmd
    /\ analyse_cmd[k].count = 1
    /\ Committing(flushes[fid], k) = 1

(***************************************************************************)
(* C17: no step removes a row of a counter table or lowers its count, and  *)
(* every accumulator of a live counter buffer has a count of at least 1.   *)
(***************************************************************************)
C17_CountsGrow ==
  /\ [](\A u \in CounterTables : \A o \in LiveObjects(u) : heap[o].count >= 1)
  /\ [][ \A u \in CounterTables : \A k \in DOMAIN TableOf(u) :
           /\ k \in DOMAIN TableOf(u)'
           /\ TableOf(u)'[k].count >= TableOf(u)[k].count
       ]_vars

\* the count of a persisted row has grown from 1 to 2 while a live buffer
\* holds nothing
C17_Witness ==
  /\ BuffersEmpty
  /\ timerFires = 1
  /\ \E k \in DOMAIN analyse_rank : analyse_rank[k].count = 2

(***************************************************************************)
(* C18: an event without channelId, without userId or with empty or blank  *)
(* content is never accepted, and the step that delivers it changes        *)
(* nothing: caches, markers, resolvers, buffers, drains, storage, the      *)
(* calls issued and the errors logged are as before.                       *)
(***************************************************************************)
C18_DroppedNoEffect ==
  /\ [](DOMAIN accepted \subseteq {<<"c1", "u1">>})
  /\ [][ (nEvents' # nEvents /\ accepted' = accepted) =>
           UNCHANGED <<storageVars, bufferVars, identVars, lifeVars, handlers,
                       flushes, logged, failures, attributed>>
       ]_vars

\* two events were delivered and none was accepted
C18_Witness == nEvents = 2 /\ accepted = EmptyMap

(***************************************************************************)
(* C19: a step that folds an event adds exactly 1 to the message-type      *)
(* count of each element type the event contains, however many elements of *)
(* that type it has, and adds nothing to any other message-type key.       *)
(***************************************************************************)
C19_OncePerType ==
  [][ attributed' # attributed =>
        \E s \in DrainSessions : \E uid \in {row.uid : row \in analyse_user} :
          /\ Count(attributed', <<s.channelId, s.userId, uid>>)
               = Count(attributed, <<s.channelId, s.userId, uid>>) + 1
          /\ (s.command # "") <=> (\E o \in StampedNext :
                                     Touched(o) /\ "command" \in DOMAIN heap'[o])
          /\ \A k \in FoldedKeys("msg")' :
               Buffered("msg", k)' - Buffered("msg", k)
                 = IF k[1] = uid /\ k[2] \in TypesOf(s) THEN 1 ELSE 0
          /\ \A type \in TypesOf(s) : <<uid, type>> \in FoldedKeys("msg")'
    ]_vars

\* a message with two mentions and a text, and a message with a text, were
\* drained: the text row has count 2 and the mention row count 1
C19_Witness ==
  \E uid \in {row.uid : row \in analyse_user} :
    /\ DOMAIN analyse_msg = {<<uid, "text">>, <<uid, "at">>}
    /\ analyse_msg[<<uid, "text">>].count = 2
    /\ analyse_msg[<<uid, "at">>].count = 1

\* the collector runs and its interval timer has a firing ahead
TimerRunning == flushInterval /\ ~disposed /\ timerFires < MaxTimerFlush

\* the accumulators that can exist: at most one command, two message-type and
\* two hourly accumulators per event
Oids == 1..(5 * MaxEvents)

\* accumulator o is in the live buffer B
Holds(B, o) == \E key \in DOMAIN B : B[key] = o

\* some drain has handed accumulator o to storage in its upsert of table u and
\* awaits the answer
Handed(u, o) ==
  \E fid \in DOMAIN flushes : flushes[fid].pc = u /\ o \in Objects(flushes[fid], u)

(***************************************************************************)
(* C20: while the collector runs and the timer keeps firing, what is       *)
(* folded into a live buffer is eventually handed to storage: an           *)
(* accumulator of the live message-type buffer is eventually part of an    *)
(* upsert of analyse_msg that some drain has before storage, and likewise  *)
(* an hourly accumulator for analyse_rank.                                 *)
(***************************************************************************)
C20_AsStated ==
  \A o \in Oids :
    /\ (TimerRunning /\ Holds(msgStatBuffer, o)) ~> Handed("msg", o)
    /\ (TimerRunning /\ Holds(rankStatBuffer, o)) ~> Handed("rank", o)

\* the event s was accepted in this step
Arrives(s) ==
  Count(accepted', <<s.channelId, s.userId>>)
    = Count(accepted, <<s.channelId, s.userId>>) + 1

\* an event of the sender of s was folded in this step
FoldedNow(s) ==
  \E uid \in {row.uid : row \in analyse_user} :
    Count(attributed', <<s.channelId, s.userId, uid>>)
      = Count(attributed, <<s.channelId, s.userId, uid>>) + 1

IdentityKeys == {KeyOfSession(s) : s \in IdentitySessions \ {BlankSession}}

\* some handler is suspended on the promise of a resolution
AwaitingUser == \E h \in DOMAIN handlers : handlers[h].pc = "awaitUser"

(***************************************************************************)
(* C22: a resolution completes even if the host never answers the          *)
(* display-name lookup: the in-flight marker of a key is eventually        *)
(* removed, and the handlers suspended on a resolution eventually resume.  *)
(***************************************************************************)
C22_AsStated ==
  /\ \A key \in IdentityKeys :
       (key \in DOMAIN pendingUserRequests) ~> (key \notin DOMAIN pendingUserRequests)
  /\ AwaitingUser ~> ~AwaitingUser

\* the handlers suspended on the promise of a resolution
Suspended == {h \in DOMAIN handlers : handlers[h].pc = "awaitUser"}

(***************************************************************************)
(* C23: an accepted event whose key is in userCache is attributed, in the  *)
(* step in which it arrives, to the uid of the cached identity; that step  *)
(* issues no storage or host call, suspends no handler on a resolution and *)
(* leaves userCache, pendingUserRequests, the resolvers and the identity   *)
(* table as they were.                                                     *)
(***************************************************************************)
C23_CacheHitNoIO ==
  [][ \A s \in DrainSessions :
        (Arrives(s) /\ KeyOfSession(s) \in DOMAIN userCache) =>
          /\ Count(attributed', <<s.channelId, s.userId, userCache[KeyOfSession(s)].uid>>)
               = Count(attributed, <<s.channelId, s.userId, userCache[KeyOfSession(s)].uid>>) + 1
          /\ UNCHANGED <<dbCalls, userCache, pendingUserRequests, resolving,
                         analyse_user, userAutoInc>>
          /\ Suspended' = Suspended
    ]_vars

\* two events of a sender are attributed to the uid of the cached identity
\* and the key has cost one lookup and one write in all
C23_Witness ==
  \E s \in DrainSessions :
    /\ KeyOfSession(s) \in DOMAIN userCache
    /\ Count(attributed, <<s.channelId, s.userId, userCache[KeyOfSession(s)].uid>>) = 2
    /\ Calls("get", KeyOfSession(s)) = 1
    /\ Calls("set", KeyOfSession(s)) + Calls("create", KeyOfSession(s)) = 1

\* the entries of the content log: buffered, in the snapshot of a drain, or
\* persisted
ContentLog ==
  Range(oriCacheBuffer) \cup Range(analyse_cache)
    \cup UNION {Range(flushes[fid].cache) : fid \in DOMAIN flushes}

\* tokens.join('')
RECURSIVE Join(_)
Join(tokens) ==
  IF tokens = <<>> THEN "" ELSE Head(tokens) \o Join(Tail(tokens))

(***************************************************************************)
(* C24: the content recorded for a message is the concatenation, in order, *)
(* of one token per element: the content of a text, '[img]' for a picture  *)
(* ('[gif]' for an animated sticker), '[at:<id>]' for a mention and        *)
(* '[<type>]' for an element of any other kind.                            *)
(***************************************************************************)
C24_AsStated ==
  \A entry \in ContentLog : \A s \in SanitizeSessions :
    (~IsDropped(s) /\ entry.timestamp = s.timestamp) =>
      entry.content =
        Join([i \in DOMAIN s.elements |->
                LET e == s.elements[i]
                IN CASE e.type = "text" -> e.attrs.content
                     [] e.type = "img" ->
                          IF e.attrs.summary = "[sticker]" THEN "[gif]" ELSE "[img]"
                     [] e.type = "at" -> "[at:" \o e.attrs.id \o "]"
                     [] OTHER -> "[" \o e.type \o "]"])

(***************************************************************************)
(* C25: sanitizeContent is total and keeps text as it is: every element of *)
(* a recorded message has a non-empty token, and the content recorded for  *)
(* a message of text elements only is the concatenation of their contents. *)
(***************************************************************************)
C25_AsStated ==
  \A entry \in ContentLog : \A s \in TextSessions :
    (~IsDropped(s) /\ entry.timestamp = s.timestamp) =>
      /\ \A i \in DOMAIN s.elements : Token(s.elements[i]) # ""
      /\ (\A i \in DOMAIN s.elements : s.elements[i].type = "text") =>
           entry.content
             = Join([i \in DOMAIN s.elements |-> s.elements[i].attrs.content])

\* resolver rid awaits a storage or host call that has not settled
CallOutstanding(rid) ==
  resolving[rid].pc \in {"get", "getGuild", "set", "create"}

(***************************************************************************)
(* C26: the in-flight marker is registered in the step that starts the     *)
(* resolution.  In every state between two steps, a resolver that awaits   *)
(* a call has the marker of its key in pendingUserRequests, and the marker *)
(* holds the promise of that resolver.                                     *)
(***************************************************************************)
C26_MarkerWithResolution ==
  \A rid \in DOMAIN resolving :
    CallOutstanding(rid) =>
      /\ resolving[rid].key \in DOMAIN pendingUserRequests
      /\ pendingUserRequests[resolving[rid].key] = rid

\* a second event of the key arrived while the create of its resolution was
\* outstanding and found the marker: two handlers await the one promise
C26_Witness ==
  \E rid \in DOMAIN resolving :
    /\ resolving[rid].pc = "create"
    /\ pendingUserRequests[resolving[rid].key] = rid
    /\ Cardinality({h \in Suspended : handlers[h].awaits = rid}) = 2
    /\ Calls("get", resolving[rid].key) = 1

\* the live buffers, seen as a drain would snapshot them
LiveView ==
  [cmd |-> Range(cmdStatBuffer), msg |-> Range(msgStatBuffer),
   rank |-> Range(rankStatBuffer), at |-> whoAtBuffer, cache |-> oriCacheBuffer]

\* the events with timestamp t that have their content entry in log
EventsAt(log, t) == Cardinality({i \in DOMAIN log : log[i].timestamp = t})

\* the events of sessions S with an element of the type that have their
\* content entry in log
RECURSIVE EventsWith(_, _, _)
EventsWith(log, S, type) ==
  IF S = {} THEN 0
  ELSE LET s == CHOOSE x \in S : TRUE
       IN (IF type \in TypesOf(s) THEN EventsAt(log, s.timestamp) ELSE 0)
            + EventsWith(log, S \ {s}, type)

\* the mention records line 143 pushes for one event s
MentionsOf(s) ==
  Cardinality({i \in DOMAIN s.elements :
                 /\ s.elements[i].type = "at"
                 /\ s.elements[i].attrs.id \notin {"", s.userId}})

\* view holds every contribution of each event whose content entry it holds,
\* and nothing else.  The sessions of S fall into different hours.
Whole(view, S) ==
  /\ \A s \in S :
       LET n == EventsAt(view.cache, s.timestamp)
       IN /\ s.command # "" =>
               SumCounts({o \in view.cmd : heap[o].command = s.command}, heap) = n
          /\ \A type \in TypesOf(s) :
               SumCounts({o \in view.rank :
                            /\ heap[o].type = type
                            /\ heap[o].timestamp = HourStart(s.timestamp)}, heap) = n
          /\ EventsAt(view.at, s.timestamp) = n * MentionsOf(s)
  /\ \A o \in view.msg :
       SumCounts({x \in view.msg : heap[x].type = heap[o].type}, heap)
         = EventsWith(view.cache, S, heap[o].type)
  /\ view.cache = <<>> =>
       view.cmd = {} /\ view.msg = {} /\ view.rank = {} /\ view.at = <<>>

(***************************************************************************)
(* C27: an event is folded in one step.  The step that folds it issues no  *)
(* storage or host call and changes no table, and the live buffers and the *)
(* snapshot of every drain each hold either every contribution of an event *)
(* (command, message type, hourly bucket, mention records, content entry)  *)
(* or none of them.                                                        *)
(***************************************************************************)
C27_FoldIsAtomic ==
  /\ [](/\ Whole(LiveView, {s \in DrainSessions : ~IsDropped(s)})
        /\ \A fid \in DOMAIN flushes :
             Whole(flushes[fid], {s \in DrainSessions : ~IsDropped(s)}))
  /\ [][ attributed' # attributed =>
           dbCalls' = dbCalls /\ UNCHANGED storageVars ]_vars

\* the timer fired between the folds of two events: the message with the
\* mentions is wholly in the snapshot of that drain, the command wholly in
\* the live buffers
C27_Witness ==
  \E fid \in DOMAIN flushes :
    /\ flushes[fid].trigger = "timer"
    /\ Len(flushes[fid].cache) = 1
    /\ Len(flushes[fid].at) = 2
    /\ Len(oriCacheBuffer) = 1
    /\ DOMAIN cmdStatBuffer # {}
    /\ whoAtBuffer = <<>>

\* the sum over all hours of the counts that the hourly rows of tab hold for
\* uid and type
RECURSIVE HoursTotal(_, _, _, _)
HoursTotal(tab, keys, uid, type) ==
  IF keys = {} THEN 0
  ELSE LET k == CHOOSE x \in keys : TRUE
       IN (IF k[1] = uid /\ k[3] = type THEN tab[k].count ELSE 0)
            + HoursTotal(tab, keys \ {k}, uid, type)

\* the live hourly buckets add up to the live message-type accumulators
LiveAgree ==
  /\ \A o \in Range(msgStatBuffer) :
       heap[o].count
         = SumCounts({r \in Range(rankStatBuffer) :
                        heap[r].uid = heap[o].uid /\ heap[r].type = heap[o].type},
                     heap)
  /\ \A r \in Range(rankStatBuffer) : \E o \in Range(msgStatBuffer) :
       heap[r].uid = heap[o].uid /\ heap[r].type = heap[o].type

\* the persisted hourly rows add up to the persisted message-type rows
PersistedAgree ==
  /\ \A k \in DOMAIN analyse_msg :
       analyse_msg[k].count
         = HoursTotal(analyse_rank, DOMAIN analyse_rank, k[1], k[2])
  /\ \A k \in DOMAIN analyse_rank : <<k[1], k[3]>> \in DOMAIN analyse_msg

\* a drain completes in this step
DrainCompletes == \E fid \in DOMAIN flushes : fid \notin DOMAIN flushes'

(***************************************************************************)
(* C28 as stated: the live hourly buckets always add up to the live        *)
(* message-type accumulator of the same uid and type, and when no commit   *)
(* has failed the persisted hourly rows add up to the persisted            *)
(* message-type row after each drain that completes.                       *)
(***************************************************************************)
C28_AsStated ==
  /\ []LiveAgree
  /\ [][ (logged'.flush = 0 /\ DrainCompletes) => PersistedAgree' ]_vars

(***************************************************************************)
(* C28: the live hourly buckets always add up to the live message-type     *)
(* accumulator of the same uid and type; the persisted hourly rows add up  *)
(* to the persisted message-type row whenever no commit has failed and no  *)
(* drain is in flight.                                                     *)
(***************************************************************************)
C28_BucketsAddUp ==
  /\ LiveAgree
  /\ (logged.flush = 0 /\ flushes = EmptyMap) => PersistedAgree

\* two events in different hours were drained without a failure: the text
\* row has count 2 and the two hourly text rows have count 1 each
C28_Witness ==
  /\ logged.flush = 0
  /\ flushes = EmptyMap
  /\ \E k \in DOMAIN analyse_msg :
       /\ analyse_msg[k].count = 2
       /\ Cardinality({r \in DOMAIN analyse_rank :
                         r[1] = k[1] /\ r[3] = k[2] /\ analyse_rank[r].count = 1}) = 2

\* the pair of s has a row whose user name is not the name s carries
NameChanged(s) ==
  \E row \in RowsOf(s.channelId, s.userId) :
    s.username # "" /\ row.userName # s.username

\* a resolution of the key of s that carries the name of s is in flight
Refreshing(s) ==
  \E rid \in DOMAIN resolving :
    /\ resolving[rid].key = KeyOfSession(s)
    /\ resolving[rid].session.username = s.username
    /\ CallOutstanding(rid)

\* the event s, which lies in an hour of its own, is folded in the step in
\* which it arrives: it was served from userCache
ServedFromCache(s) ==
  /\ nEvents' # nEvents
  /\ \E k \in DOMAIN folded'.rank :
       /\ k[2] = HourStart(s.timestamp)
       /\ Count(folded'.rank, k) = Count(folded.rank, k) + 1

(***************************************************************************)
(* C29 as stated: an event whose sender has a row under another user name  *)
(* gets the stored name refreshed to its own also when its identity is in  *)
(* userCache: after the step that serves it from the cache the row carries *)
(* the event's name, or a resolution that carries it is in flight.         *)
(***************************************************************************)
C29_AsStated ==
  [][ \A s \in {x \in RenameSessions : ~IsDropped(x)} :
        (ServedFromCache(s) /\ NameChanged(s)) =>
          (~NameChanged(s))' \/ Refreshing(s)'
    ]_vars

(***************************************************************************)
(* C29: the stored display names are refreshed only by the resolver.  A    *)
(* resolver that found a row issues database.set exactly when a name it    *)
(* has is non-empty and differs from the stored one, and when the set      *)
(* returns the row carries the event's user name and the channel name the  *)
(* host gave; an event that is served from userCache or that joins a       *)
(* pending resolution leaves the identity table as it is and issues no     *)
(* call, whatever name it carries.                                         *)
(***************************************************************************)
C29_RefreshOnResolve ==
  [][ /\ \A rid \in DOMAIN resolving :
           /\ (resolving[rid].pc = "set" /\ Moved(rid) /\ logged' = logged) =>
                \E row \in analyse_user' :
                  /\ row.uid = resolving[rid].dbUser.uid
                  /\ row.userName = resolving[rid].session.username
                  /\ row.channelName = resolving[rid].currentChannelName
           /\ (resolving[rid].pc = "getGuild" /\ Moved(rid)
                 /\ resolving[rid].dbUser # null) =>
                IF rid \in DOMAIN resolving'
                THEN /\ resolving'[rid].pc = "set"
                     /\ NamesDiffer(resolving[rid].dbUser,
                                    resolving[rid].session.username,
                                    resolving'[rid].currentChannelName)
                ELSE /\ analyse_user' = analyse_user
                     /\ userCache'[resolving[rid].key] = resolving[rid].dbUser
      /\ \A s \in RenameSessions :
           (Arrives(s) /\ (KeyOfSession(s) \in DOMAIN userCache
                            \/ KeyOfSession(s) \in DOMAIN pendingUserRequests)) =>
             analyse_user' = analyse_user /\ dbCalls' = dbCalls
    ]_vars

\* the row that was in storage under the name "nick" carries the name "nico"
\* and the guild's name: an event under the new name was resolved from storage
C29_Witness ==
  \E row \in analyse_user :
    /\ row.uid = StaleRow.uid
    /\ row.userName = RenamedSession.username
    /\ row.channelName \in GuildNames

\* the upsert that drain fid awaits throws in this step and the drain ends
EndsOnFailure(fid) ==
  /\ logged'.flush = logged.flush + 1
  /\ fid \notin DOMAIN flushes'

(***************************************************************************)
(* C30: a failed commit costs a drain only the snapshot of the table whose *)
(* upsert threw: the drain goes on to submit every later non-empty         *)
(* snapshot, so it ends on a failure only when no later table has one.     *)
(***************************************************************************)
C30_AsStated ==
  [][ \A fid \in DOMAIN flushes :
        EndsOnFailure(fid) => NextTable(flushes[fid]) = "done" ]_vars

\* the collector is disposed and nothing is left that could fold or drain:
\* no handler is suspended and no resolution is in flight
Quiescent == disposed /\ handlers = EmptyMap /\ resolving = EmptyMap

(***************************************************************************)
(* C31: an event accepted before teardown is not lost when its resolution  *)
(* settles after the final drain: once the collector is disposed and every *)
(* handler has run to its end, no live buffer holds a record.              *)
(***************************************************************************)
C31_AsStated == Quiescent => ~SomethingBuffered

\* no resolution of the key awaits a call
Idle(key) ==
  \A rid \in DOMAIN resolving :
    resolving[rid].key = key => ~CallOutstanding(rid)

(***************************************************************************)
(* C32: a resolution that fails with a storage error yields no identity.   *)
(* The step that logs the failure writes nothing to userCache and to no    *)
(* buffer, a handler that resumes without an identity ends without folding *)
(* anything, and an event that arrives for a key that is not cached and    *)
(* has no resolution awaiting a call issues a new storage lookup.          *)
(***************************************************************************)
C32_AsStated ==
  [][ /\ logged'.resolve # logged.resolve =>
           userCache' = userCache /\ UNCHANGED bufferVars
      /\ \A h \in DOMAIN handlers :
           (handlers[h].pc = "resumed" /\ handlers[h].user = null
              /\ h \notin DOMAIN handlers') =>
             UNCHANGED bufferVars /\ attributed' = attributed
      /\ \A s \in EarlyThrowSessions :
           (Arrives(s) /\ KeyOfSession(s) \notin DOMAIN userCache
              /\ Idle(KeyOfSession(s))) =>
             Calls("get", KeyOfSession(s))' = Calls("get", KeyOfSession(s)) + 1
    ]_vars

(***************************************************************************)
(* C33: a refresh never blanks a stored display name: no step replaces a   *)
(* non-empty user name or channel name of an identity row by the empty     *)
(* string.                                                                 *)
(***************************************************************************)
C33_AsStated ==
  [][ \A row \in analyse_user : \A next \in analyse_user' :
        next.uid = row.uid =>
          /\ row.userName # "" => next.userName # ""
          /\ row.channelName # "" => next.channelName # ""
    ]_vars

\* the identity that userCache holds under the key of s is a row of storage
\* for the pair of s
CachedRowIsOf(s) ==
  \E row \in analyse_user :
    /\ row.uid = userCache[KeyOfSession(s)].uid
    /\ row.channelId = s.channelId
    /\ row.userId = s.userId

(***************************************************************************)
(* C34: whatever userCache holds under the key of a pair (channelId,       *)
(* userId) is the uid of a row that storage has for exactly that pair.     *)
(***************************************************************************)
C34_AsStated ==
  \A s \in {x \in CollideSessions \cup IdentitySessions : ~IsDropped(x)} :
    KeyOfSession(s) \in DOMAIN userCache => CachedRowIsOf(s)

\* e is no mention
NotAt(e) == e.type # "at"

\* the mention elements of s that have the target id
AtsOf(s, target) ==
  Cardinality({i \in DOMAIN s.elements :
                 s.elements[i].type = "at" /\ s.elements[i].attrs.id = target})

\* the mention records of log with the timestamp and the target
RecordsFor(log, t, target) ==
  Cardinality({i \in DOMAIN log : log[i].timestamp = t /\ log[i].target = target})

\* every record of the mention log is one that an event of S has to append:
\* none for the sender or for nobody, and the content without the mentions
MentionsWellFormed(log, S) ==
  \A s \in S :
    /\ RecordsFor(log, s.timestamp, "") = 0
    /\ RecordsFor(log, s.timestamp, s.userId) = 0
    /\ \A i \in DOMAIN log :
         log[i].timestamp = s.timestamp =>
           /\ AtsOf(s, log[i].target) > 0
           /\ log[i].content = sanitizeContent(SelectSeq(s.elements, NotAt))
           /\ log[i].uid \in UidsOf(s.channelId, s.userId)

\* view holds, for each event of S whose content entry it holds, one record
\* per mention element of somebody else
MentionsCounted(view, S) ==
  \A s \in S : \A target \in {"u1", "u2"} \ {s.userId} :
    RecordsFor(view.at, s.timestamp, target)
      = EventsAt(view.cache, s.timestamp) * AtsOf(s, target)

(***************************************************************************)
(* C35: with mention recording enabled an event appends one mention record *)
(* for each mention element whose target id is non-empty and is not the    *)
(* sender's userId, and none for a self-mention or a mention without id.   *)
(* Each record carries the sender's uid, the target id, the timestamp of   *)
(* the event and the sanitized content of the elements that are no         *)
(* mentions.  The records are counted in the live buffers and in the       *)
(* snapshot of every drain, where the content entry of the same event      *)
(* tells how many events there were; the persisted log holds nothing else. *)
(***************************************************************************)
C35_MentionRecords ==
  /\ config.enableWhoAt
  /\ \A view \in {LiveView} \cup Range(flushes) :
       /\ MentionsWellFormed(view.at, {s \in MentionSessions : ~IsDropped(s)})
       /\ MentionsCounted(view, {s \in MentionSessions : ~IsDropped(s)})
  /\ MentionsWellFormed(analyse_at, {s \in MentionSessions : ~IsDropped(s)})

\* both messages were drained and committed: two records for the two mentions
\* of the one, one record for the one mention of somebody else of the other
C35_Witness ==
  /\ Len(analyse_at) = 3
  /\ Len(analyse_cache) = 2
  /\ RecordsFor(analyse_at, SelfMentionSession.timestamp, "u2") = 1
  /\ RecordsFor(analyse_at, 2, "u2") = 2

\* the events that were folded under the uid
AttributedTo(uid) ==
  SumOf(attributed, {y \in DOMAIN attributed : y[3] = uid})

\* the counter buffers of B, with the accumulators they refer to
Counters(B) ==
  [cmd |-> [k \in DOMAIN B.cmd |-> B.heap[B.cmd[k]]],
   msg |-> [k \in DOMAIN B.msg |-> B.heap[B.msg[k]]],
   rank |-> [k \in DOMAIN B.rank |-> B.heap[B.rank[k]]]]

\* nothing was added to the mention buffer or to the mention log
NoMentionRecord ==
  /\ whoAtBuffer = <<>>
  /\ analyse_at = <<>>
  /\ \A fid \in DOMAIN flushes : flushes[fid].at = <<>>

\* nothing was added to the content buffer or to the content log, and no
\* drain was started by the threshold
NoContentRecord ==
  /\ oriCacheBuffer = <<>>
  /\ analyse_cache = <<>>
  /\ \A fid \in DOMAIN flushes :
       flushes[fid].cache = <<>> /\ flushes[fid].trigger # "threshold"

\* every event of DrainSessions has a text element and is either the command
\* or has a mention: the folded counts follow from the number of events
\* folded under a uid, whatever the configuration
CountersFollowEvents ==
  \A uid \in {x[3] : x \in DOMAIN attributed} :
    /\ Count(folded.msg, <<uid, "text">>) = AttributedTo(uid)
    /\ Count(folded.cmd, <<uid, "ping">>) + Count(folded.msg, <<uid, "at">>)
         = AttributedTo(uid)
    /\ SumOf(folded.rank, {k \in DOMAIN folded.rank : k[1] = uid /\ k[3] = "text"})
         = AttributedTo(uid)
    /\ SumOf(folded.rank, {k \in DOMAIN folded.rank : k[1] = uid /\ k[3] = "at"})
         = Count(folded.msg, <<uid, "at">>)

(***************************************************************************)
(* C36: the optional logs are gated by the configuration.  With            *)
(* enableWhoAt false nothing is ever added to whoAtBuffer or analyse_at;   *)
(* with enableOriRecord false nothing is ever added to oriCacheBuffer or   *)
(* analyse_cache and no drain is started by the threshold.  The counter    *)
(* buffers are folded the same in all four configurations: the folded      *)
(* counts follow from the events alone, and folding an event into the live *)
(* buffers yields the same counter buffers under every configuration.      *)
(***************************************************************************)
C36_Gated ==
  /\ ~config.enableWhoAt => NoMentionRecord
  /\ ~config.enableOriRecord => NoContentRecord
  /\ CountersFollowEvents
  /\ \A s \in {x \in DrainSessions : ~IsDropped(x)} : \A cfg \in Configs :
       Counters(Fold(Live, s, 1, cfg)) = Counters(Fold(Live, s, 1, config))

\* both logs are switched off, two events were folded and a drain has
\* committed their counters
C36_Witness ==
  /\ ~config.enableWhoAt
  /\ ~config.enableOriRecord
  /\ \E uid \in {x[3] : x \in DOMAIN attributed} :
       /\ AttributedTo(uid) = 2
       /\ Persisted("msg", <<uid, "text">>) = 2
       /\ Persisted("msg", <<uid, "at">>) = 1

(***************************************************************************)
(* The append-only collector variant: every message is one record of       *)
(* msgBuffer, and flushBuffer hands the whole buffer to one upsert.        *)
(***************************************************************************)
MaxRecords == 3

MaxUpsertFailures == 2

\* summarizeElementTypes: '[type]' once per distinct element type
RECURSIVE Bracketed(_)
Bracketed(types) ==
  IF types = <<>> THEN ""
  ELSE "[" \o Head(types) \o "]" \o Bracketed(Tail(types))

summarizeElementTypes(elements) == Bracketed(DistinctTypes(elements, {}))

\* the switch of the variant's sanitizeContent
PlainToken(e) ==
  CASE e.type = "text" -> e.attrs.content
    [] e.type = "img" -> IF e.attrs.summary = "[sticker]" THEN "[gif]" ELSE "[img]"
    [] e.type = "at" -> "[at:" \o e.attrs.id \o "]"
    [] OTHER -> "[" \o e.type \o "]"

\* the variant's sanitizeContent: elements.map(...).join('')
RECURSIVE PlainContent(_)
PlainContent(elements) ==
  IF elements = <<>> THEN ""
  ELSE PlainToken(Head(elements)) \o PlainContent(Tail(elements))

\* handleMessage: isCommand ? content : this.sanitizeContent(elements)
finalContent(s) == IF s.command # "" THEN s.content ELSE PlainContent(s.elements)

\* handleMessage: the guards on the ids, on the timestamp and on the content
Ignored(s) ==
  \/ s.channelId = "" \/ s.userId = "" \/ s.timestamp = 0
  \/ Trim(finalContent(s)) = ""

\* handleMessage: the record pushed for the message
RecordOf(s) ==
  [channelId |-> s.channelId, userId |-> s.userId,
   type |-> IF s.command # "" THEN s.command
            ELSE summarizeElementTypes(s.elements),
   content |-> finalContent(s), timestamp |-> s.timestamp]

\* a command, a message with mentions, and a message without content
AppendSessions ==
  {PingSession("c1", "u1", 1), MentionSession("c1", "u1", 2), BlankSession}

\* flushBuffer up to its await, called with the buffer buf: nothing happens on
\* an empty buffer; otherwise the buffer is swapped for a new one and the
\* snapshot is handed to one upsert
flushBuffer(buf, life) ==
  IF buf = <<>>
  THEN /\ msgBuffer' = buf
       /\ msgFlushes' = msgFlushes
       /\ appendOnly' = life
  ELSE /\ msgBuffer' = <<>>
       /\ msgFlushes' = Put(msgFlushes, NewId(msgFlushes), buf)
       /\ appendOnly' = [life EXCEPT !.calls = @ + 1]

\* handleMessage returns before the push
IgnoreMessage(s) ==
  /\ ~appendOnly.disposed
  /\ appendOnly.events < MaxRecords
  /\ Ignored(s)
  /\ appendOnly' = [appendOnly EXCEPT !.events = @ + 1]
  /\ UNCHANGED <<msgBuffer, msgFlushes, msgRows, collectorVars>>

\* handleMessage after the await of updateNameIfNeeded: the record is pushed
\* and, at the threshold, flushBuffer is called without being awaited
handleMessage(s) ==
  /\ ~appendOnly.disposed
  /\ appendOnly.events < MaxRecords
  /\ ~Ignored(s)
  /\ LET buf == Append(msgBuffer, RecordOf(s))
         life == [appendOnly EXCEPT !.events = @ + 1,
                                    !.pushed = Append(@, RecordOf(s))]
     IN IF Len(buf) >= BUFFER_THRESHOLD
        THEN flushBuffer(buf, life)
        ELSE /\ msgBuffer' = buf
             /\ appendOnly' = life
             /\ msgFlushes' = msgFlushes
  /\ UNCHANGED <<msgRows, collectorVars>>

\* the callback of setInterval
IntervalFlush ==
  /\ appendOnly.flushInterval
  /\ appendOnly.timerFires < MaxTimerFlush
  /\ flushBuffer(msgBuffer, [appendOnly EXCEPT !.timerFires = @ + 1])
  /\ UNCHANGED <<msgRows, collectorVars>>

\* the dispose handler: clearInterval, then flushBuffer without awaiting it
DisposeVariant ==
  /\ ~appendOnly.disposed
  /\ flushBuffer(msgBuffer, [appendOnly EXCEPT !.disposed = TRUE,
                                               !.flushInterval = FALSE])
  /\ UNCHANGED <<msgRows, collectorVars>>

\* the upsert of a suspended flushBuffer returns: the rows are inserted in
\* the order of the snapshot
UpsertOk(fid) ==
  /\ msgRows' = msgRows \o msgFlushes[fid]
  /\ msgFlushes' = Del(msgFlushes, fid)
  /\ UNCHANGED <<msgBuffer, appendOnly, collectorVars>>

\* the upsert throws: this.msgBuffer.unshift(...bufferToFlush)
UpsertFail(fid) ==
  /\ appendOnly.failures < MaxUpsertFailures
  /\ msgBuffer' = msgFlushes[fid] \o msgBuffer
  /\ msgFlushes' = Del(msgFlushes, fid)
  /\ appendOnly' = [appendOnly EXCEPT !.failures = @ + 1]
  /\ UNCHANGED <<msgRows, collectorVars>>

NextAppend ==
  \/ \E s \in AppendSessions : IgnoreMessage(s)
  \/ \E s \in AppendSessions : handleMessage(s)
  \/ IntervalFlush
  \/ DisposeVariant
  \/ \E fid \in DOMAIN msgFlushes : UpsertOk(fid)
  \/ \E fid \in DOMAIN msgFlushes : UpsertFail(fid)

\* the append-only variant with a storage service whose upsert may throw
SpecAppend == Init /\ [][NextAppend]_vars

\* the entries of seq that equal r
Copies(seq, r) == Cardinality({i \in DOMAIN seq : seq[i] = r})

\* the records of all suspended flushBuffer calls that equal r
RECURSIVE InSnapshots(_, _)
InSnapshots(fids, r) ==
  IF fids = {} THEN 0
  ELSE LET fid == CHOOSE x \in fids : TRUE
       IN Copies(msgFlushes[fid], r) + InSnapshots(fids \ {fid}, r)

\* every pushed record is in storage, in a snapshot or in the buffer, once
NoRecordLost ==
  \A r \in Range(appendOnly.pushed) :
    Copies(appendOnly.pushed, r)
      = Copies(msgRows, r) + InSnapshots(DOMAIN msgFlushes, r) + Copies(msgBuffer, r)

\* seq can be obtained from all by leaving records out
RECURSIVE InOrderOf(_, _)
InOrderOf(seq, all) ==
  IF seq = <<>> THEN TRUE
  ELSE IF all = <<>> THEN FALSE
  ELSE IF Head(seq) = Head(all) THEN InOrderOf(Tail(seq), Tail(all))
  ELSE InOrderOf(seq, Tail(all))

(***************************************************************************)
(* C37: in the append-only variant a failed commit loses no record and     *)
(* reorders none.  Every pushed record is in storage, in the snapshot of a *)
(* suspended flush or in the live buffer; the records of the live buffer,  *)
(* with a failed snapshot put back at their front, and the records that a  *)
(* flush submits are in the order in which they were pushed; and a flush   *)
(* on an empty buffer issues no storage call, so every call carries at     *)
(* least one record.                                                       *)
(***************************************************************************)
C37_AsStated ==
  /\ NoRecordLost
  /\ InOrderOf(msgBuffer, appendOnly.pushed)
  /\ \A fid \in DOMAIN msgFlushes :
       /\ InOrderOf(msgFlushes[fid], appendOnly.pushed)
       /\ msgFlushes[fid] # <<>>

\* the part of C37 that holds with overlapping flushes as well
C37_NoLoss ==
  /\ NoRecordLost
  /\ \A fid \in DOMAIN msgFlushes : msgFlushes[fid] # <<>>

====
